---- MODULE Spec2Model ----
(***************************************************************************)
(* Model of the accspldetect watchers: one watcher script is one process.  *)
(* A behaviour of this module is one process run of one watcher (the       *)
(* variable venue says which script runs).  The specifications share the   *)
(* variables:                                                              *)
(*   Spec          the notification pipeline (dedup, resolution with       *)
(*                 retry, pool filter, latency, sink) with the connection  *)
(*                 held fixed;                                             *)
(*   SpecConn      the connection management (reconnect counters and       *)
(*                 timers, stream lifecycle) with no notification traffic; *)
(*   SpecFaults    the pipeline over a long run: in-flight sweep and       *)
(*                 lookups failing at the network level;                   *)
(*   SpecSwap      swap extraction and the write of a resolved             *)
(*                 transaction;                                            *)
(*   SpecOrca      the orca watcher: subscribe fallback, local prefilter   *)
(*                 and reconnect, with notification traffic;               *)
(*   SpecShutdown  the pipeline and the connection up to SIGINT;           *)
(*   SpecStartup   the checks at module load, then the connection;         *)
(*   SpecTwo       a failing watcher beside the process of another venue.  *)
(***************************************************************************)
EXTENDS Integers, Sequences, FiniteSets, Bags, TLC

VARIABLES
    venue,                 \* which watcher script this process runs
    POOLS,                 \* configured pool list (sequence, in configured order)
    now,                   \* Date.now()
    seen,                  \* const seen = new Set<string>()
    processingSignatures,  \* Map<string, number>: in-flight signature -> timestamp
    sink,                  \* records appended by writer.write, in order
    streamWrites,          \* strings handed to stream.write by the jsonl writer, in order
    tasks,                 \* bag of running async handler instances, each suspended at an await
    fetchCalls,            \* history: number of connection.getTransaction calls per signature
    results,               \* history: per signature, what each lookup handed to the handler
    rejected,              \* history: signatures for which a notification was rejected as a duplicate
    usingAllFilter,        \* orca: subscribed with the 'all' filter
    eventCount,            \* orca: heartbeat counter
    reconnectAttempts,     \* raydium / raydium-grpc: let reconnectAttempts
    reconnecting,          \* raydium-grpc: let reconnecting
    timers,                \* pending reconnect timers (sequence of delays in ms)
    lastDelay,             \* history: delay of the most recently scheduled reconnect (0: none yet)
    gaveUp,                \* history: attemptReconnect took its "max attempts reached" branch
    ws,                    \* websocket of wsConn: "connecting" | "open" | "errored" | "closed"
    wsSubs,                \* account-change / logs listeners registered on the Connections made so far
    stream,                \* raydium-grpc: lifecycle of the stream currentStream refers to
    streamPc,              \* raydium-grpc: position of startStreaming()
    startedBy,             \* raydium-grpc: who called the running startStreaming()
    pingIntervalId,        \* raydium-grpc: keepalive interval active
    currentStream,         \* raydium-grpc: let currentStream, as the number of the stream (0: null)
    pingTimers,            \* raydium-grpc: active keepalive intervals, each named by its stream
    pingStream,            \* raydium-grpc: the stream of the interval pingIntervalId refers to (0: none)
    replaced,              \* raydium-grpc: earlier streams whose handlers are still attached
    exited,                \* the process ended: 0 running, 1 = exit(0), 2 = exit code 1,
                           \* 3 = terminated by a signal it does not handle
    subscriptionId,        \* orca: let subscriptionId (0 models null)
    failures,              \* history: websocket / orca failure events injected so far (bounds the run)
    outages,               \* history: connection losses since the last successful (re)connect
    rejectedLate,          \* history: signatures rejected while absent from the in-flight map
    blockTimeLookups,      \* history: per signature, what each getBlockTimeMsFallback call returned
    netFailed,             \* history: signatures whose most recent connection.getTransaction threw
    swapTx,                \* swap extraction: the resolved transaction being processed
    swapPc,                \* swap extraction: "resolved" before the handler tail ran, "done" after
    subscribeTries,        \* orca history: filters the latest subscribeLogs() passed to wsConn.onLogs
    prefiltered,           \* orca history: an onLog call returned at the local prefilter
    sinkClosed,            \* writer.close() was called
    unsubThrew,            \* history: pools whose removeAccountChangeListener threw at shutdown
    processEnv,            \* process.env as the watcher was started with
    peer                   \* the watcher process of another venue running beside this one

vars == <<venue, POOLS, now, seen, processingSignatures, sink, streamWrites, tasks, fetchCalls,
          results, rejected, usingAllFilter, eventCount, reconnectAttempts, reconnecting,
          timers, lastDelay, gaveUp, ws, wsSubs, stream, streamPc, startedBy,
          pingIntervalId, currentStream, pingTimers, pingStream, replaced,
          exited, subscriptionId, failures, outages, rejectedLate,
          blockTimeLookups, netFailed, swapTx, swapPc, subscribeTries,
          prefiltered, sinkClosed, unsubThrew, processEnv, peer>>

pipeVars == <<now, seen, processingSignatures, sink, streamWrites, tasks, fetchCalls, results,
              rejected, eventCount, rejectedLate, blockTimeLookups, netFailed>>
swapVars == <<swapTx, swapPc>>
auxVars == <<subscribeTries, prefiltered>>
shutVars == <<sinkClosed, unsubThrew, processEnv>>
peerVars == <<peer>>
connVars == <<usingAllFilter, reconnectAttempts, reconnecting, timers, lastDelay,
              gaveUp, ws, wsSubs, stream, streamPc, startedBy,
              pingIntervalId, currentStream, pingTimers, pingStream, replaced,
              exited, subscriptionId, failures, outages>>

----------------------------------------------------------------------------
(* Bounds *)

MaxTasks == 2
MaxNow == 2100
MaxFailures == 7
MaxTimers == 5
MaxSubs == 6
MaxEvents == 3
MaxSweeps == 2
MaxPeerOutages == 1
MaxStreams == 3

TickMs == 700
StartMs == 1300

----------------------------------------------------------------------------
(* Values *)

NULL == "null"
None == {}
Some(x) == {x}
Val(s) == CHOOSE x \in s : TRUE

Max(a, b) == IF a >= b THEN a ELSE b
Min(a, b) == IF a <= b THEN a ELSE b

RECURSIVE Pow2(_)
Pow2(n) == IF n = 0 THEN 1 ELSE 2 * Pow2(n - 1)

SeqToSet(s) == {s[i] : i \in 1..Len(s)}

\* Array.from(new Set(xs)): first occurrences, in order
RECURSIVE Dedup(_)
Dedup(xs) ==
    IF xs = <<>> THEN <<>>
    ELSE LET front == Dedup(SubSeq(xs, 1, Len(xs) - 1))
             last == xs[Len(xs)]
         IN IF last \in SeqToSet(front) THEN front ELSE Append(front, last)

Venues == {"raydium", "raydium_v1", "raydium_grpc", "raydium_grpc_v0", "orca",
           "meteora_cpamm"}
ConnVenues == {"raydium", "raydium_v1", "raydium_grpc", "raydium_grpc_v0", "orca"}
GrpcVenues == {"raydium_grpc", "raydium_grpc_v0"}
WsRaydium == {"raydium", "raydium_v1"}
LogsVenues == {"orca", "meteora_cpamm"}
InFlightVenues == {"raydium", "raydium_v1", "orca"}

Sigs == {"sig1", "sig2"}
NoSig == ""
PROGRAM_STR == "whirLbMiicVdio4qvUfM5KAg6Ct8VwpYzGff3uctyCc"

\* a log line: a string, or a value that is not a string
Line(text) == [isString |-> TRUE, text |-> text]
NonString == [isString |-> FALSE, text |-> ""]
SwapLine == Line("Program log: Instruction: Swap")
InvokeLine == Line("Program whirLbMiicVdio4qvUfM5KAg6Ct8VwpYzGff3uctyCc invoke [1]")
OtherLine == Line("Program 11111111111111111111111111111111 invoke [1]")

\* l.includes("Instruction:") and the text after the last "Instruction:", trimmed
IncludesInstruction(l) == l.text = "Program log: Instruction: Swap"
AfterInstruction(l) == "Swap"
\* l.includes(programStr)
IncludesProgram(l, programStr) ==
    l.text = "Program whirLbMiicVdio4qvUfM5KAg6Ct8VwpYzGff3uctyCc invoke [1]"
        /\ programStr = PROGRAM_STR

\* Resolved transactions the read connection can return
Tx(bt, st, lk, res, logs) ==
    [blockTime |-> bt, staticKeys |-> st, lookupKeys |-> lk,
     lookupsResolve |-> res, logMessages |-> logs]
NoTx == [blockTime |-> None, staticKeys |-> <<>>, lookupKeys |-> <<>>,
         lookupsResolve |-> FALSE, logMessages |-> <<>>]
TxSet ==
    { Tx(Some(1), <<"C", "B">>, <<>>, TRUE, <<InvokeLine, SwapLine>>),
      Tx(Some(2), <<"B", "A">>, <<>>, TRUE, <<SwapLine>>),
      Tx(None, <<"C">>, <<>>, TRUE, <<OtherLine>>),
      Tx(Some(1), <<"C">>, <<"B">>, TRUE, <<SwapLine>>),
      Tx(Some(1), <<"A">>, <<>>, TRUE, <<NonString, SwapLine>>) }
BlockTimes == {None, Some(1000), Some(2000)}

PoolConfigs == {<<>>, <<"A", "B">>}

----------------------------------------------------------------------------
(* Pure helpers of common/tx-helpers.ts and their inline copies *)

\* flattenAllAccounts: static keys then lookup keys, de-duplicated; static
\* keys alone when resolving the lookups throws
flattenAllAccounts(tx) ==
    IF tx.lookupsResolve THEN Dedup(tx.staticKeys \o tx.lookupKeys)
    ELSE tx.staticKeys

\* every account the transaction references, directly or through lookup tables
accountsTouched(tx) == SeqToSet(tx.staticKeys) \cup SeqToSet(tx.lookupKeys)

\* mutant: the first account is returned without looking it up in the pool keys
poolMentionedInTxAny(allAccounts, poolKeys) ==
    IF allAccounts = <<>> THEN NULL ELSE allAccounts[1]

\* poolMentionedInTx: the first account, in list order, that is a pool key
poolMentionedInTx(allAccounts, poolKeys) ==
    LET hits == {i \in 1..Len(allAccounts) : allAccounts[i] \in poolKeys}
    IN IF hits = {} THEN NULL
       ELSE allAccounts[CHOOSE i \in hits : \A j \in hits : i <= j]

\* raydium-grpc pool tag: the first configured pool, in POOLS order, found
\* among the static account keys; POOLS[0] when none is found
grpcPoolTag(tx, pools) ==
    LET hits == {i \in 1..Len(pools) : pools[i] \in SeqToSet(tx.staticKeys)}
    IN IF hits = {} THEN pools[1]
       ELSE pools[CHOOSE i \in hits : \A j \in hits : i <= j]

\* guessInstructionLabel: logs.find(l => l.includes("Instruction:")); calling
\* includes on a value that is not a string throws a TypeError
guessInstructionLabel(logs) ==
    LET stops == {i \in 1..Len(logs) :
                    ~logs[i].isString \/ IncludesInstruction(logs[i])}
        first == CHOOSE i \in stops : \A j \in stops : i <= j
    IN IF stops = {} THEN [throws |-> FALSE, label |-> NULL]
       ELSE IF ~logs[first].isString THEN [throws |-> TRUE, label |-> NULL]
       ELSE [throws |-> FALSE, label |-> AfterInstruction(logs[first])]

\* logsMentionProgram (orca)
logsMentionProgram(lines, programStr) ==
    /\ Len(lines) > 0
    /\ \E i \in 1..Len(lines) : lines[i].isString /\ IncludesProgram(lines[i], programStr)

\* latency_ms as the raydium watchers compute it
latencyClamped(detectedMs, blockTimeMs) ==
    IF blockTimeMs # None THEN Some(Max(0, detectedMs - Val(blockTimeMs))) ELSE None

\* latency_ms as the orca / meteora / humidifi watchers compute it
latencyPlain(detectedMs, blockTimeMs) ==
    IF blockTimeMs # None THEN Some(detectedMs - Val(blockTimeMs)) ELSE None

\* tx.blockTime != null ? tx.blockTime * 1000 : null
embeddedBlockTimeMs(tx) ==
    IF tx.blockTime # None THEN Some(Val(tx.blockTime) * 1000) ELSE None

----------------------------------------------------------------------------
(* Records written to the sink *)

\* sig.slice(0, 16) + "...": the shortened signature some records carry in
\* their signature field (the signatures of Sigs have fewer than 16 characters,
\* so slice(0, 16) keeps all of them)
shortSignature(sig) == sig \o "..."

\* signature_full is NULL in the records that have no such field
Rec(sig, full, kind, pool, bt, det, lat, ix, err) ==
    [signature |-> sig, signature_full |-> full, kind |-> kind, pool |-> pool,
     tx_block_time_ms |-> bt, detected_ms |-> det, latency_ms |-> lat,
     instruction |-> ix, error |-> err]

\* orca and raydium_v1 write signature_full next to signature
fullSignature(v, sig) == IF v \in {"orca", "raydium_v1"} THEN sig ELSE NULL

\* the "transaction not (yet) available" record
noteRecord(v, t) ==
    Rec(IF v = "orca" THEN shortSignature(t.sig) ELSE t.sig, fullSignature(v, t.sig),
        "note", IF v \in WsRaydium THEN t.pool ELSE NULL,
        None, t.detectedMs, None, NULL, NULL)

\* the record written by a catch block
errorRecord(v, t, msg) ==
    Rec(IF v \in {"orca", "raydium_v1"} THEN shortSignature(t.sig) ELSE t.sig,
        fullSignature(v, t.sig), "error", IF v \in WsRaydium THEN t.pool ELSE NULL,
        None, t.detectedMs, None, NULL, msg)

\* the record of a resolved transaction
successRecord(v, t, pool, bt, ix) ==
    Rec(t.sig, fullSignature(v, t.sig), "success", pool, bt, t.detectedMs,
        IF v \in WsRaydium THEN latencyClamped(t.detectedMs, bt)
        ELSE latencyPlain(t.detectedMs, bt),
        ix, NULL)

\* the signature a record was written for: signature_full where the record
\* has one, the signature field otherwise
carriedSignature(r) ==
    IF r.signature_full # NULL THEN r.signature_full ELSE r.signature

RecordsOf(s) == {i \in 1..Len(sink) : carriedSignature(sink[i]) = s}

\* JSON.stringify(obj) + "\n": the text of one JSON object and its line end
JsonLine(obj) == [text |-> obj, newline |-> TRUE]

\* mutant: the writer hands the object text to the stream without the line end
writeUnterminated(obj) == <<[text |-> obj, newline |-> FALSE]>>

\* write: (obj) => stream.write(JSON.stringify(obj) + "\n"), as the sequence of
\* strings it hands to stream.write
write(obj) == <<JsonLine(obj)>>

RECURSIVE WritesOf(_)
\* the stream.write calls of writer.write applied to each of objs in turn
WritesOf(objs) ==
    IF objs = <<>> THEN <<>> ELSE write(Head(objs)) \o WritesOf(Tail(objs))

\* writer.write(obj) for each record a handler step writes
WriterWrite(objs) ==
    /\ sink' = sink \o objs
    /\ streamWrites' = streamWrites \o WritesOf(objs)

----------------------------------------------------------------------------
(* Notification handlers.  A handler instance that is suspended at an await *)
(* is a task; everything between two awaits is one step.                    *)

Task(pc, sig, pool, det, tx) ==
    [pc |-> pc, sig |-> sig, pool |-> pool, detectedMs |-> det, tx |-> tx]
Idle == Task("idle", NoSig, NULL, 0, NoTx)
Running == BagToSet(tasks)
CanStart == BagCardinality(tasks) < MaxTasks
\* the bag of tasks after task t continued as task next (Idle: t returned)
Continue(t, next) ==
    (tasks (-) SetToBag({t})) (+) (IF next = Idle THEN EmptyBag ELSE SetToBag({next}))

\* what a handler step leaves behind: the task it continues as (Idle when the
\* handler returned), the records it wrote, whether it deleted its in-flight entry
Outcome(next, recs, del) == [next |-> next, recs |-> recs, del |-> del]

\* messages of the exceptions the processing chain can raise
TypeErrorMsg == "l.includes is not a function"
IsGatewayMsg(msg) == msg \in {"504 Gateway Timeout", "Bad Gateway"}

\* the catch block of the handler
catchBlock(v, t, msg) ==
    IF v = "raydium" THEN Outcome(Idle, <<>>, FALSE)
    ELSE Outcome(Idle,
                 <<errorRecord(v, t, IF v \in {"orca", "raydium_v1"} /\ IsGatewayMsg(msg)
                                      THEN "gateway_timeout" ELSE msg)>>,
                 v = "orca")

\* the handler from the point where the block time is known to its end
finishTx(v, t, tx, pool, bt) ==
    LET g == guessInstructionLabel(tx.logMessages)
    IN IF g.throws THEN catchBlock(v, t, TypeErrorMsg)
       ELSE Outcome(Idle, <<successRecord(v, t, pool, bt, g.label)>>, v = "orca")

\* mutant: a transaction with no matched pool is dropped also when no pool is
\* configured
resolvedRequiresPool(v, t, tx) ==
    IF v = "raydium" THEN finishTx(v, t, tx, t.pool, embeddedBlockTimeMs(tx))
    ELSE LET matchedPool ==
                 IF v = "raydium_v1" THEN t.pool
                 ELSE poolMentionedInTx(flattenAllAccounts(tx), SeqToSet(POOLS))
         IN IF v # "raydium_v1" /\ matchedPool = NULL
            THEN Outcome(Idle, <<>>, FALSE)
            ELSE IF tx.blockTime # None
            THEN finishTx(v, t, tx, matchedPool, embeddedBlockTimeMs(tx))
            ELSE Outcome(Task("blocktime", t.sig, matchedPool, t.detectedMs, tx),
                         <<>>, FALSE)

\* the handler from the point where fetchTx returned a transaction
resolved(v, t, tx) ==
    IF v = "raydium" THEN finishTx(v, t, tx, t.pool, embeddedBlockTimeMs(tx))
    ELSE LET matchedPool ==
                 IF v = "raydium_v1" THEN t.pool
                 ELSE poolMentionedInTx(flattenAllAccounts(tx), SeqToSet(POOLS))
         IN IF v # "raydium_v1" /\ matchedPool = NULL /\ Len(POOLS) > 0
            THEN Outcome(Idle, <<>>, FALSE)
            ELSE IF tx.blockTime # None
            THEN finishTx(v, t, tx, matchedPool, embeddedBlockTimeMs(tx))
            ELSE Outcome(Task("blocktime", t.sig, matchedPool, t.detectedMs, tx),
                         <<>>, FALSE)

\* mutant: the handler returns without a record when the retry finds nothing
notAvailableSilent(v, t) == Outcome(Idle, <<>>, v = "orca")

\* the handler from the point where the second fetchTx returned null
notAvailable(v, t) == Outcome(Idle, <<noteRecord(v, t)>>, v = "orca")

Apply(t, o) ==
    /\ tasks' = Continue(t, o.next)
    /\ WriterWrite(o.recs)
    /\ processingSignatures' =
           IF o.del
           THEN [s \in DOMAIN processingSignatures \ {t.sig}
                    |-> processingSignatures[s]]
           ELSE processingSignatures

\* mutant: the handlers do not test the signature
noSignatureNever(sig) == FALSE

\* !sig (onLogs callbacks), !sigBase58 (raydium-grpc: bufferToBase58 returns ""
\* for a signature it cannot encode)
noSignature(sig) == sig = NoSig

\* mutant: the dedup check consults the in-flight map only
alreadyHandledInFlightOnly(v, sig) ==
    v \in InFlightVenues /\ sig \in DOMAIN processingSignatures

\* shouldProcess: the dedup check at the head of processSignature / onLog
alreadyHandled(v, sig) ==
    \/ sig \in seen
    \/ v \in InFlightVenues /\ sig \in DOMAIN processingSignatures

\* mutant: the signature is put in the in-flight map but not in the seen set
AcceptInFlightOnly(t, sig, pool, det) ==
    /\ seen' = seen
    /\ processingSignatures' =
           IF venue \in InFlightVenues
           THEN [s \in DOMAIN processingSignatures \cup {sig} |->
                    IF s = sig THEN det ELSE processingSignatures[s]]
           ELSE processingSignatures
    /\ fetchCalls' = [fetchCalls EXCEPT ![sig] = @ + 1]
    /\ tasks' = Continue(t, Task("fetch1", sig, pool, det, NoTx))

\* seen.add(sig); processingSignatures.set(sig, detectedMs); first fetchTx issued
Accept(t, sig, pool, det) ==
    /\ seen' = seen \cup {sig}
    /\ processingSignatures' =
           IF venue \in InFlightVenues
           THEN [s \in DOMAIN processingSignatures \cup {sig} |->
                    IF s = sig THEN det ELSE processingSignatures[s]]
           ELSE processingSignatures
    /\ fetchCalls' = [fetchCalls EXCEPT ![sig] = @ + 1]
    /\ tasks' = Continue(t, Task("fetch1", sig, pool, det, NoTx))

\* mutant: the early return restarts the timestamp of the in-flight entry
SkipRefreshing(t, sig) ==
    /\ tasks' = Continue(t, Idle)
    /\ processingSignatures' =
           IF sig \in DOMAIN processingSignatures
           THEN [processingSignatures EXCEPT ![sig] = now]
           ELSE processingSignatures
    /\ UNCHANGED <<seen, fetchCalls>>

\* the `return` at the head of processSignature / onLog: the handler ends
\* before seen.add, processingSignatures.set and fetchTx
Skip(t, sig) ==
    /\ tasks' = Continue(t, Idle)
    /\ UNCHANGED <<seen, processingSignatures, fetchCalls>>

\* raydium: wsConn.onAccountChange callback up to its await of
\* getSignaturesForAddress
AccountChange(p) ==
    /\ venue \in WsRaydium /\ exited = 0
    /\ p \in SeqToSet(wsSubs)
    /\ CanStart
    /\ tasks' = tasks (+) SetToBag({Task("lookup", NoSig, p,
                                         IF venue = "raydium" THEN now ELSE 0, NoTx)})
    /\ UNCHANGED <<venue, POOLS, now, seen, processingSignatures, sink, streamWrites, fetchCalls,
                   results, rejected, eventCount, rejectedLate, blockTimeLookups,
                   netFailed>>
    /\ UNCHANGED <<connVars, swapVars, auxVars, shutVars, peerVars>>

\* raydium: getSignaturesForAddress returned (or threw); processSignature runs
\* up to its first await
LookupReturn(t, res) ==
    /\ venue \in WsRaydium /\ exited = 0
    /\ t \in Running /\ t.pc = "lookup"
    /\ IF res \in Sigs /\ ~alreadyHandled(venue, res)
       THEN Accept(t, res, t.pool,
                   IF venue = "raydium" THEN t.detectedMs ELSE now)
       ELSE Skip(t, res)
    /\ rejected' = IF res \in Sigs /\ alreadyHandled(venue, res)
                   THEN rejected \cup {res} ELSE rejected
    /\ rejectedLate' = IF /\ res \in Sigs /\ alreadyHandled(venue, res)
                          /\ res \notin DOMAIN processingSignatures
                       THEN rejectedLate \cup {res} ELSE rejectedLate
    /\ UNCHANGED <<venue, POOLS, now, sink, streamWrites, results, eventCount, blockTimeLookups,
                   netFailed>>
    /\ UNCHANGED <<connVars, swapVars, auxVars, shutVars, peerVars>>

\* orca / meteora: the onLogs callback up to its first await
OnLogs(sig, lines) ==
    /\ venue \in LogsVenues /\ exited = 0
    /\ wsSubs # <<>>
    /\ venue = "orca" => eventCount < MaxEvents
    /\ eventCount' = IF venue = "orca" THEN eventCount + 1 ELSE eventCount
    /\ IF \/ venue = "orca" /\ usingAllFilter /\ ~logsMentionProgram(lines, PROGRAM_STR)
          \/ noSignature(sig)
          \/ alreadyHandled(venue, sig)
       THEN Skip(Idle, sig)
       ELSE /\ CanStart
            /\ Accept(Idle, sig, NULL, now)
    /\ rejected' =
           IF /\ ~(venue = "orca" /\ usingAllFilter /\ ~logsMentionProgram(lines, PROGRAM_STR))
              /\ ~noSignature(sig) /\ alreadyHandled(venue, sig)
           THEN rejected \cup {sig} ELSE rejected
    /\ rejectedLate' =
           IF /\ ~(venue = "orca" /\ usingAllFilter /\ ~logsMentionProgram(lines, PROGRAM_STR))
              /\ ~noSignature(sig) /\ alreadyHandled(venue, sig)
              /\ sig \notin DOMAIN processingSignatures
           THEN rejectedLate \cup {sig} ELSE rejectedLate
    /\ prefiltered' =
           (prefiltered \/ (venue = "orca" /\ usingAllFilter
                               /\ ~logsMentionProgram(lines, PROGRAM_STR)))
    /\ UNCHANGED <<venue, POOLS, now, sink, streamWrites, results, blockTimeLookups, netFailed>>
    /\ UNCHANGED <<connVars, swapVars, subscribeTries, shutVars, peerVars>>

\* fetchTx returned: null (not found, or an RPC error it swallowed) or a transaction
FetchReturn(t, res) ==
    /\ exited = 0
    /\ t \in Running /\ t.pc \in {"fetch1", "fetch2"}
    \* the signature came from getSignaturesForAddress(pool): its transaction names the pool
    /\ (venue \in WsRaydium /\ res # NoTx) => t.pool \in accountsTouched(res)
    /\ results' = [results EXCEPT ![t.sig] = Append(@, res)]
    /\ IF res = NoTx /\ t.pc = "fetch1"
       THEN /\ tasks' = Continue(t, [t EXCEPT !.pc = "delay"])
            /\ UNCHANGED <<sink, streamWrites, processingSignatures>>
       ELSE IF res = NoTx
       THEN Apply(t, notAvailable(venue, t))
       ELSE Apply(t, resolved(venue, t, res))
    /\ netFailed' = netFailed \ {t.sig}
    /\ UNCHANGED <<venue, POOLS, now, seen, fetchCalls, rejected, eventCount,
                   rejectedLate, blockTimeLookups>>
    /\ UNCHANGED <<connVars, swapVars, auxVars, shutVars, peerVars>>

\* what connection.getTransaction does: it returns a transaction, returns null
\* (not found), or throws
RpcErrors == {"429 Too Many Requests", "504 Gateway Timeout"}
RpcReturns(tx) == [throws |-> FALSE, value |-> tx, message |-> ""]
RpcThrows(msg) == [throws |-> TRUE, value |-> NoTx, message |-> msg]

\* fetchTx: the result of getTransaction, or null when it threw
fetchTx(rpc) == IF rpc.throws THEN NoTx ELSE rpc.value

\* connection.getTransaction threw: fetchTx logs the error and returns null, and
\* the handler goes on as for a transaction that was not found
FetchThrows(t, msg) ==
    /\ exited = 0
    /\ t \in Running /\ t.pc \in {"fetch1", "fetch2"}
    /\ netFailed' = netFailed \cup {t.sig}
    /\ results' = [results EXCEPT ![t.sig] = Append(@, fetchTx(RpcThrows(msg)))]
    /\ IF t.pc = "fetch1"
       THEN /\ tasks' = Continue(t, [t EXCEPT !.pc = "delay"])
            /\ UNCHANGED <<sink, streamWrites, processingSignatures>>
       ELSE Apply(t, notAvailable(venue, t))
    /\ UNCHANGED <<venue, POOLS, now, seen, fetchCalls, rejected, eventCount,
                   rejectedLate, blockTimeLookups>>
    /\ UNCHANGED <<connVars, swapVars, auxVars, shutVars, peerVars>>

\* the retry delay elapsed: the second fetchTx is issued
DelayElapsed(t) ==
    /\ exited = 0
    /\ t \in Running /\ t.pc = "delay"
    /\ tasks' = Continue(t, [t EXCEPT !.pc = "fetch2"])
    /\ fetchCalls' = [fetchCalls EXCEPT ![t.sig] = @ + 1]
    /\ UNCHANGED <<venue, POOLS, now, seen, processingSignatures, sink, streamWrites, results,
                   rejected, eventCount, rejectedLate, blockTimeLookups, netFailed>>
    /\ UNCHANGED <<connVars, swapVars, auxVars, shutVars, peerVars>>

\* getBlockTimeMsFallback returned
BlockTimeReturn(t, bt) ==
    /\ exited = 0
    /\ t \in Running /\ t.pc = "blocktime"
    /\ Apply(t, finishTx(venue, t, t.tx, t.pool, bt))
    /\ blockTimeLookups' = [blockTimeLookups EXCEPT ![t.sig] = Append(@, bt)]
    /\ UNCHANGED <<venue, POOLS, now, seen, fetchCalls, results, rejected, eventCount,
                   rejectedLate, netFailed>>
    /\ UNCHANGED <<connVars, swapVars, auxVars, shutVars, peerVars>>

\* raydium-grpc: tx.blockTime || Math.floor(detectedMs / 1000), times 1000
grpcBlockTimeMs(tx, detectedMs) ==
    IF tx.blockTime # None /\ Val(tx.blockTime) # 0
    THEN Val(tx.blockTime) * 1000
    ELSE (detectedMs \div 1000) * 1000

\* raydium-grpc: the record of one transaction update
grpcRecord(sig, tx, detectedMs) ==
    Rec(shortSignature(sig), sig, "success", grpcPoolTag(tx, POOLS),
        Some(grpcBlockTimeMs(tx, detectedMs)), detectedMs,
        Some(Max(0, detectedMs - grpcBlockTimeMs(tx, detectedMs))),
        guessInstructionLabel(tx.logMessages).label, NULL)

\* raydium-grpc: stream.on("data") handler, which has no await
GrpcData(kind, sig, tx) ==
    /\ venue \in GrpcVenues /\ exited = 0
    /\ stream = "live" \/ \E r \in replaced : r.status = "live"
    /\ IF kind # "transaction" \/ noSignature(sig) \/ sig \in seen
       THEN UNCHANGED <<seen, sink, streamWrites, results>>
       ELSE /\ seen' = seen \cup {sig}
            /\ results' = [results EXCEPT ![sig] = Append(@, tx)]
            /\ WriterWrite(IF guessInstructionLabel(tx.logMessages).throws
                           THEN <<>>
                           ELSE <<grpcRecord(sig, tx, now)>>)
    /\ rejected' = IF kind = "transaction" /\ sig \in seen
                   THEN rejected \cup {sig} ELSE rejected
    /\ rejectedLate' = IF kind = "transaction" /\ sig \in seen
                       THEN rejectedLate \cup {sig} ELSE rejectedLate
    /\ UNCHANGED <<venue, POOLS, now, processingSignatures, tasks, fetchCalls,
                   eventCount, blockTimeLookups, netFailed>>
    /\ UNCHANGED <<connVars, swapVars, auxVars, shutVars, peerVars>>

\* time passes
Tick ==
    /\ now + TickMs <= MaxNow
    /\ now' = now + TickMs
    /\ UNCHANGED <<venue, POOLS, seen, processingSignatures, sink, streamWrites, tasks, fetchCalls,
                   results, rejected, eventCount, rejectedLate, blockTimeLookups,
                   netFailed>>
    /\ UNCHANGED <<connVars, swapVars, auxVars, shutVars, peerVars>>

\* 5 * 60 * 1000: period of the in-flight sweep and age beyond which it deletes
SWEEP_INTERVAL_MS == 300000

\* when the sweep interval fires next (the interval starts at module load)
nextSweepAt ==
    StartMs + (((now - StartMs) \div SWEEP_INTERVAL_MS) + 1) * SWEEP_INTERVAL_MS

\* mutant: the sweep deletes an entry from the age of five minutes on
sweptFromAge(map, nowMs) == {s \in DOMAIN map : nowMs - map[s] >= SWEEP_INTERVAL_MS}

\* the in-flight entries a sweep at time nowMs deletes
swept(map, nowMs) == {s \in DOMAIN map : nowMs - map[s] > SWEEP_INTERVAL_MS}

\* mutant: the sweep also forgets the swept signatures in the seen set
SweepForgetsSeen ==
    /\ venue \in InFlightVenues /\ exited = 0
    /\ nextSweepAt <= StartMs + MaxSweeps * SWEEP_INTERVAL_MS
    /\ now' = nextSweepAt
    /\ processingSignatures' =
           [s \in DOMAIN processingSignatures \ swept(processingSignatures, nextSweepAt)
               |-> processingSignatures[s]]
    /\ seen' = seen \ swept(processingSignatures, nextSweepAt)
    /\ UNCHANGED <<venue, POOLS, sink, streamWrites, tasks, fetchCalls, results, rejected,
                   eventCount, rejectedLate, blockTimeLookups, netFailed>>
    /\ UNCHANGED <<connVars, swapVars, auxVars, shutVars, peerVars>>

\* the setInterval callback that sweeps processingSignatures
Sweep ==
    /\ venue \in InFlightVenues /\ exited = 0
    /\ nextSweepAt <= StartMs + MaxSweeps * SWEEP_INTERVAL_MS
    /\ now' = nextSweepAt
    /\ processingSignatures' =
           [s \in DOMAIN processingSignatures \ swept(processingSignatures, nextSweepAt)
               |-> processingSignatures[s]]
    /\ UNCHANGED <<venue, POOLS, seen, sink, streamWrites, tasks, fetchCalls, results, rejected,
                   eventCount, rejectedLate, blockTimeLookups, netFailed>>
    /\ UNCHANGED <<connVars, swapVars, auxVars, shutVars, peerVars>>

LogBatches == {<<InvokeLine, SwapLine>>, <<OtherLine>>}
GrpcKinds == {"pong", "empty", "transaction"}

----------------------------------------------------------------------------
(* Connection management *)

\* mutant: the raydium-grpc watcher allows one attempt more
MAX_RECONNECT_ATTEMPTS_Eleven == IF venue \in GrpcVenues THEN 11 ELSE 5

MAX_RECONNECT_ATTEMPTS == IF venue \in GrpcVenues THEN 10 ELSE 5
ORCA_RECONNECT_MS == 5000

\* mutant: the delay is not capped
reconnectDelayUncapped(k) == 1000 * Pow2(k)

\* Math.min(1000 * Math.pow(2, reconnectAttempts), 30000)
reconnectDelay(k) == Min(1000 * Pow2(k), 30000)

\* messages a websocket "error" event can carry
WsErrorMsgs == {"Unexpected server response: 504", "logsSubscribe response malformed",
                "socket hang up"}
\* raydium_v1: err.message.includes("504") || err.message.includes("timeout")
IsTimeoutMsg(msg) == msg = "Unexpected server response: 504"
\* orca: the message names logsSubscribe, a malformed response or a subscription
IsSubscriptionMsg(msg) == msg = "logsSubscribe response malformed"

\* attemptReconnect of the raydium websocket watchers, as a next-state relation
\* on the reconnect state
wsAttemptReconnect ==
    IF reconnectAttempts >= MAX_RECONNECT_ATTEMPTS
    THEN /\ gaveUp' = TRUE
         /\ UNCHANGED <<reconnectAttempts, timers, lastDelay>>
    ELSE /\ reconnectAttempts' = reconnectAttempts + 1
         /\ timers' = Append(timers, reconnectDelay(reconnectAttempts + 1))
         /\ lastDelay' = reconnectDelay(reconnectAttempts + 1)
         /\ UNCHANGED gaveUp

\* attemptReconnect of raydium-grpc; inTimer says that it runs inside the
\* reconnect timer callback, whose finally block then clears reconnecting
grpcAttemptReconnect(inTimer) ==
    IF reconnecting
    THEN /\ reconnecting' = ~inTimer
         /\ UNCHANGED <<reconnectAttempts, timers, lastDelay, gaveUp, exited, sinkClosed>>
    ELSE IF reconnectAttempts >= MAX_RECONNECT_ATTEMPTS
    THEN /\ reconnecting' = TRUE
         /\ gaveUp' = TRUE
         \* watch-raydium-grpc.ts: try { writer.close?.() } finally { process.exit(1) }
         /\ sinkClosed' = (venue = "raydium_grpc" \/ sinkClosed)
         /\ exited' = 2
         /\ UNCHANGED <<reconnectAttempts, timers, lastDelay>>
    ELSE /\ reconnecting' = ~inTimer
         /\ reconnectAttempts' = reconnectAttempts + 1
         /\ timers' = Append(timers, reconnectDelay(reconnectAttempts + 1))
         /\ lastDelay' = reconnectDelay(reconnectAttempts + 1)
         /\ UNCHANGED <<gaveUp, exited, sinkClosed>>

\* scheduleReconnect of orca
scheduleReconnect ==
    IF timers # <<>>
    THEN UNCHANGED <<timers, lastDelay>>
    ELSE /\ timers' = <<ORCA_RECONNECT_MS>>
         /\ lastDelay' = ORCA_RECONNECT_MS

RemoveAt(seq, i) == SubSeq(seq, 1, i - 1) \o SubSeq(seq, i + 1, Len(seq))

\* the websocket opened
WsOpen ==
    /\ venue \in WsRaydium \cup {"orca"} /\ exited = 0
    /\ streamPc # "start"
    /\ ws = "connecting"
    /\ ws' = "open"
    /\ reconnectAttempts' = IF venue \in WsRaydium THEN 0 ELSE reconnectAttempts
    /\ outages' = IF venue \in WsRaydium THEN 0 ELSE outages
    /\ UNCHANGED <<venue, POOLS, usingAllFilter, reconnecting, timers, lastDelay, gaveUp,
                   wsSubs, stream, streamPc, startedBy,
                   pingIntervalId, currentStream, pingTimers, pingStream, replaced, exited,
                   subscriptionId, failures>>
    /\ UNCHANGED <<pipeVars, swapVars, auxVars, shutVars, peerVars>>

\* the websocket emitted "error"
WsError(msg) ==
    /\ venue \in WsRaydium \cup {"orca"} /\ exited = 0
    /\ streamPc # "start"
    /\ ws \in {"connecting", "open"}
    /\ failures < MaxFailures /\ Len(timers) < MaxTimers
    /\ failures' = failures + 1
    /\ ws' = "errored"
    /\ IF venue = "raydium_v1" /\ IsTimeoutMsg(msg)
       THEN wsAttemptReconnect
       ELSE IF venue = "orca" /\ IsSubscriptionMsg(msg)
       THEN scheduleReconnect /\ UNCHANGED <<reconnectAttempts, gaveUp>>
       ELSE UNCHANGED <<reconnectAttempts, timers, lastDelay, gaveUp>>
    /\ UNCHANGED <<venue, POOLS, usingAllFilter, reconnecting, wsSubs, stream,
                   streamPc, startedBy,
                   pingIntervalId, currentStream, pingTimers, pingStream, replaced,
                   exited, subscriptionId, outages>>
    /\ UNCHANGED <<pipeVars, swapVars, auxVars, shutVars, peerVars>>

\* the websocket closed
WsClose ==
    /\ venue \in WsRaydium \cup {"orca"} /\ exited = 0
    /\ streamPc # "start"
    /\ ws \in {"connecting", "open", "errored"}
    /\ failures < MaxFailures /\ Len(timers) < MaxTimers
    /\ failures' = failures + 1
    /\ outages' = outages + 1
    /\ ws' = "closed"
    /\ IF venue = "orca"
       THEN scheduleReconnect /\ UNCHANGED <<reconnectAttempts, gaveUp>>
       ELSE wsAttemptReconnect
    /\ UNCHANGED <<venue, POOLS, usingAllFilter, reconnecting, wsSubs, stream,
                   streamPc, startedBy,
                   pingIntervalId, currentStream, pingTimers, pingStream, replaced, exited, subscriptionId>>
    /\ UNCHANGED <<pipeVars, swapVars, auxVars, shutVars, peerVars>>

\* the websocket library retries the connection on its own
WsRetry ==
    /\ venue \in WsRaydium \cup {"orca"} /\ exited = 0
    /\ streamPc # "start"
    /\ ws = "closed"
    /\ ws' = "connecting"
    /\ UNCHANGED <<venue, POOLS, usingAllFilter, reconnectAttempts, reconnecting, timers,
                   lastDelay, gaveUp, wsSubs, stream, streamPc, startedBy,

                   pingIntervalId, currentStream, pingTimers, pingStream, replaced,
                   exited, subscriptionId, failures, outages>>
    /\ UNCHANGED <<pipeVars, swapVars, auxVars, shutVars, peerVars>>

\* raydium: a reconnect timer fired; setupSubscriptions() subscribes every pool
WsTimerFire(i) ==
    /\ venue \in WsRaydium /\ exited = 0
    /\ i \in 1..Len(timers)
    /\ Len(wsSubs) + Len(POOLS) <= MaxSubs
    /\ timers' = RemoveAt(timers, i)
    /\ wsSubs' = wsSubs \o POOLS
    /\ UNCHANGED <<venue, POOLS, usingAllFilter, reconnectAttempts, reconnecting,
                   lastDelay, gaveUp, ws, stream, streamPc, startedBy,
                   pingIntervalId, currentStream, pingTimers, pingStream, replaced,
                   exited, subscriptionId, failures, outages>>
    /\ UNCHANGED <<pipeVars, swapVars, auxVars, shutVars, peerVars>>

\* raydium-grpc: the reconnect timer fired; startStreaming() runs up to its
\* await of client.subscribe()
GrpcTimerFire ==
    /\ venue \in GrpcVenues /\ exited = 0
    /\ timers # <<>> /\ streamPc = "idle"
    /\ timers' = Tail(timers)
    /\ streamPc' = "subscribe"
    /\ startedBy' = "timer"
    /\ UNCHANGED <<venue, POOLS, usingAllFilter, reconnectAttempts, reconnecting,
                   lastDelay, gaveUp, ws, wsSubs, stream,
                   pingIntervalId, currentStream, pingTimers, pingStream, replaced, exited,
                   subscriptionId, failures, outages>>
    /\ UNCHANGED <<pipeVars, swapVars, auxVars, shutVars, peerVars>>

\* mutant: stopPings forgets the handle without clearInterval
stopPingsKeepsInterval ==
    /\ pingIntervalId' = FALSE
    /\ pingStream' = 0
    /\ pingTimers' = pingTimers

\* stopPings: clearInterval(pingIntervalId); pingIntervalId = null
stopPings ==
    /\ pingIntervalId' = FALSE
    /\ pingStream' = 0
    /\ pingTimers' = pingTimers \ {pingStream}

\* startPings(stream): stopPings(), then a setInterval whose callback writes
\* the ping to the stream it was started with
startPings(s) ==
    /\ pingIntervalId' = TRUE
    /\ pingStream' = s
    /\ pingTimers' = (pingTimers \ {pingStream}) \cup {s}

\* raydium-grpc: client.subscribe() resolved; currentStream = stream, and the
\* subscribe request is being written
GrpcSubscribeOk ==
    /\ venue \in GrpcVenues /\ exited = 0
    /\ streamPc = "subscribe"
    /\ currentStream < MaxStreams
    /\ streamPc' = "write"
    /\ stream' = "created"
    /\ currentStream' = currentStream + 1
    \* the stream currentStream referred to is not ended and keeps its handlers
    /\ replaced' = IF stream \in {"live", "errored", "ended"}
                   THEN replaced \cup {[id |-> currentStream, status |-> stream]}
                   ELSE replaced
    /\ UNCHANGED <<venue, POOLS, usingAllFilter, reconnectAttempts, reconnecting, timers,
                   lastDelay, gaveUp, ws, wsSubs, startedBy, pingIntervalId, pingTimers,
                   pingStream, exited,
                   subscriptionId, failures, outages>>
    /\ UNCHANGED <<pipeVars, swapVars, auxVars, shutVars, peerVars>>

\* raydium-grpc: client.subscribe() or stream.write(subscribeRequest) rejected;
\* the catch block of startStreaming calls attemptReconnect()
GrpcConnectFail ==
    /\ venue \in GrpcVenues /\ exited = 0
    /\ streamPc \in {"subscribe", "write"}
    /\ outages' = outages + 1
    /\ streamPc' = "idle"
    /\ startedBy' = "none"
    /\ grpcAttemptReconnect(startedBy = "timer")
    /\ UNCHANGED <<venue, POOLS, usingAllFilter, ws, wsSubs, stream,
                   pingIntervalId, currentStream, pingTimers, pingStream, replaced,
                   subscriptionId, failures>>
    /\ UNCHANGED <<pipeVars, swapVars, auxVars, unsubThrew, processEnv, peerVars>>

\* raydium-grpc: the subscribe request was written; the counter is reset, the
\* keepalive starts and the stream handlers are attached
GrpcWriteOk ==
    /\ venue \in GrpcVenues /\ exited = 0
    /\ streamPc = "write"
    /\ streamPc' = "idle"
    /\ startedBy' = "none"
    /\ reconnectAttempts' = 0
    /\ outages' = 0
    /\ startPings(currentStream)
    /\ UNCHANGED <<currentStream, replaced>>
    /\ stream' = "live"
    /\ reconnecting' = IF startedBy = "timer" THEN FALSE ELSE reconnecting
    /\ UNCHANGED <<venue, POOLS, usingAllFilter, timers, lastDelay, gaveUp, ws, wsSubs,
                   exited, subscriptionId, failures>>
    /\ UNCHANGED <<pipeVars, swapVars, auxVars, shutVars, peerVars>>

\* the events a stream with attached handlers can emit next: "error" (also
\* again, until the stream closes), "end" while it is live, "close" once
CanEmit(status, ev) ==
    \/ ev = "error" /\ status \in {"live", "errored"}
    \/ ev = "end" /\ status = "live"
    \/ ev = "close" /\ status \in {"live", "errored", "ended"}

StatusAfter(ev) ==
    CASE ev = "error" -> "errored"
      [] ev = "end" -> "ended"
      [] OTHER -> "closed"

\* the handlers startStreaming attaches to a stream: onStreamError for "error"
\* and "close" (stopPings(); attemptReconnect()); for "end" only stopPings()
\* in watch-raydium-grpc.ts, onStreamError in part_000.  They act on the
\* module-level state whichever stream emitted the event
onStreamEvent(ev) ==
    /\ stopPings
    /\ IF ev = "end" /\ venue = "raydium_grpc"
       THEN UNCHANGED <<reconnecting, reconnectAttempts, timers, lastDelay, gaveUp, exited,
                        sinkClosed>>
       ELSE grpcAttemptReconnect(FALSE)

\* raydium-grpc: the stream currentStream refers to emitted "error", "end" or
\* "close"
GrpcStreamEvent(ev) ==
    /\ venue \in GrpcVenues /\ exited = 0
    /\ CanEmit(stream, ev)
    /\ outages' = IF stream = "live" THEN outages + 1 ELSE outages
    /\ stream' = StatusAfter(ev)
    /\ onStreamEvent(ev)
    /\ UNCHANGED <<currentStream, replaced>>
    /\ UNCHANGED <<venue, POOLS, usingAllFilter, ws, wsSubs, streamPc, startedBy,
                   subscriptionId, failures>>
    /\ UNCHANGED <<pipeVars, swapVars, auxVars, unsubThrew, processEnv, peerVars>>

\* raydium-grpc: a stream that startStreaming has replaced since emitted
\* "error", "end" or "close"; the stream currentStream refers to is untouched
GrpcReplacedStreamEvent(id, ev) ==
    /\ venue \in GrpcVenues /\ exited = 0
    /\ \E r \in replaced :
           /\ r.id = id
           /\ CanEmit(r.status, ev)
           /\ replaced' = IF ev = "close" THEN replaced \ {r}
                          ELSE (replaced \ {r}) \cup {[id |-> id, status |-> StatusAfter(ev)]}
    /\ onStreamEvent(ev)
    /\ UNCHANGED <<venue, POOLS, usingAllFilter, ws, wsSubs, stream, streamPc, startedBy,
                   currentStream, subscriptionId, failures, outages>>
    /\ UNCHANGED <<pipeVars, swapVars, auxVars, unsubThrew, processEnv, peerVars>>

\* raydium-grpc: the keepalive interval fired; a failing write stops the pings
GrpcPing(ok) ==
    /\ venue \in GrpcVenues /\ exited = 0
    /\ pingIntervalId
    /\ IF ok THEN UNCHANGED <<pingIntervalId, pingTimers, pingStream>> ELSE stopPings
    /\ UNCHANGED <<currentStream, replaced>>
    /\ UNCHANGED <<venue, POOLS, usingAllFilter, reconnectAttempts, reconnecting, timers,
                   lastDelay, gaveUp, ws, wsSubs, stream, streamPc, startedBy, exited,
                   subscriptionId, failures, outages>>
    /\ UNCHANGED <<pipeVars, swapVars, auxVars, shutVars, peerVars>>

\* orca: subscribeLogs(), called with no reconnect timer pending; outcome says
\* which wsConn.onLogs call the provider accepts.  It is called at module load
\* and by the reconnect timer, which has just replaced wsConn by a new
\* Connection: removeOnLogsListener(subscriptionId) is then called on the new
\* Connection and the listener registered on the replaced one stays
\* registered, so wsSubs holds one "logs" listener per successful subscribe
SubscribeOutcomes == {"program", "all", "none"}
\* mutant: a rejected program-filter subscription goes straight to
\* scheduleReconnect(), without the attempt with the 'all' filter
subscribeLogsNoFallback(outcome) ==
    IF outcome # "program"
    THEN /\ subscriptionId' = 0
         /\ wsSubs' = wsSubs
         /\ timers' = <<ORCA_RECONNECT_MS>>
         /\ lastDelay' = ORCA_RECONNECT_MS
         /\ subscribeTries' = <<"program">>
         /\ UNCHANGED usingAllFilter
    ELSE /\ subscriptionId' = 1
         /\ wsSubs' = Append(wsSubs, "logs")
         /\ usingAllFilter' = FALSE
         /\ timers' = <<>>
         /\ subscribeTries' = <<"program">>
         /\ UNCHANGED lastDelay

subscribeLogs(outcome) ==
    IF outcome = "none"
    THEN /\ subscriptionId' = 0
         /\ wsSubs' = wsSubs
         /\ timers' = <<ORCA_RECONNECT_MS>>
         /\ lastDelay' = ORCA_RECONNECT_MS
         /\ subscribeTries' = <<"program", "all">>
         /\ UNCHANGED usingAllFilter
    ELSE /\ subscriptionId' = 1
         /\ wsSubs' = Append(wsSubs, "logs")
         /\ usingAllFilter' = (outcome = "all")
         /\ timers' = <<>>
         /\ subscribeTries' = IF outcome = "program" THEN <<"program">>
                              ELSE <<"program", "all">>
         /\ UNCHANGED lastDelay

\* orca: module load runs attachWebsocketHandlers() and subscribeLogs()
OrcaStart(outcome) ==
    /\ venue = "orca" /\ exited = 0
    /\ streamPc = "start"
    /\ streamPc' = "idle"
    /\ subscribeLogs(outcome)
    /\ outages' = IF outcome = "none" THEN outages + 1 ELSE 0
    /\ UNCHANGED <<venue, POOLS, reconnectAttempts, reconnecting, gaveUp, ws, stream,
                   startedBy,
                   pingIntervalId, currentStream, pingTimers, pingStream, replaced, exited, failures>>
    /\ UNCHANGED <<pipeVars, swapVars, prefiltered, shutVars, peerVars>>

\* orca: the reconnect timer fired: new Connection, handlers, subscribeLogs()
OrcaTimerFire(outcome) ==
    /\ venue = "orca" /\ exited = 0
    /\ timers # <<>>
    /\ outcome = "none" => failures < MaxFailures
    /\ outcome # "none" => Len(wsSubs) < MaxSubs
    /\ failures' = IF outcome = "none" THEN failures + 1 ELSE failures
    /\ outages' = IF outcome = "none" THEN outages + 1 ELSE 0
    /\ ws' = "connecting"
    /\ subscribeLogs(outcome)
    /\ UNCHANGED <<venue, POOLS, reconnectAttempts, reconnecting, gaveUp, stream,
                   streamPc, startedBy,
                   pingIntervalId, currentStream, pingTimers, pingStream, replaced, exited>>
    /\ UNCHANGED <<pipeVars, swapVars, prefiltered, shutVars, peerVars>>

\* orca: a websocket message that carries both "error" and "result"
OrcaMalformedMessage ==
    /\ venue = "orca" /\ exited = 0
    /\ ws = "open"
    /\ failures < MaxFailures
    /\ failures' = failures + 1
    /\ scheduleReconnect
    /\ UNCHANGED <<venue, POOLS, usingAllFilter, reconnectAttempts, reconnecting, gaveUp,
                   ws, wsSubs, stream, streamPc, startedBy,
                   pingIntervalId, currentStream, pingTimers, pingStream, replaced, exited,
                   subscriptionId, outages>>
    /\ UNCHANGED <<pipeVars, swapVars, auxVars, shutVars, peerVars>>

----------------------------------------------------------------------------
(* Initial states and specifications *)

DEFAULT_ORCA_POOL == "Czfq3xZZDmsdGdUyrNLtRhGc47cXcZtLG4crryfu44zE"

\* the pool list a watcher ends up with for the configured list env; the
\* raydium watchers exit at startup when it is empty
\* process.env: RPC_URL, GRPC_ENDPOINT ("" when unset) and the configured pool list
ProcessEnv(rpcUrl, grpcEndpoint, pools) ==
    [RPC_URL |-> rpcUrl, GRPC_ENDPOINT |-> grpcEndpoint, POOLS |-> pools]
RpcUrls == {"", "wss://rpc.example"}
DEFAULT_GRPC_ENDPOINT == "solana-yellowstone-grpc.publicnode.com:443"
GrpcEndpoints == {"", "your-endpoint.example:443", "grpc.example:443"}
\* the environments a watcher is started with; a variable a watcher never
\* reads is left unset
EnvsOf(v) ==
    {ProcessEnv(u, g, ps) :
        u \in (IF v \in GrpcVenues THEN {""} ELSE RpcUrls),
        g \in (IF v \in GrpcVenues THEN GrpcEndpoints ELSE {""}),
        ps \in PoolConfigs}

\* the ENV object of common/env.ts: it has no GRPC_ENDPOINT key
ENV(pe) == [RPC_URL |-> pe.RPC_URL, RAYDIUM_POOLS |-> pe.POOLS]
\* (ENV as any).GRPC_ENDPOINT || "solana-yellowstone-grpc.publicnode.com:443"
RAW_ENDPOINT(pe) ==
    IF "GRPC_ENDPOINT" \in DOMAIN ENV(pe) /\ ENV(pe)["GRPC_ENDPOINT"] # ""
    THEN ENV(pe)["GRPC_ENDPOINT"]
    ELSE DEFAULT_GRPC_ENDPOINT
\* String(RAW_ENDPOINT).includes("your-endpoint")
IncludesYourEndpoint(endpoint) == endpoint = "your-endpoint.example:443"

\* the exit code of the checks at module load (0: they pass): requireRpc()
\* throws uncaught, validateEnv() and the pool check call process.exit(1)
startupExit(v, pe) ==
    IF v \in GrpcVenues
    THEN IF IncludesYourEndpoint(RAW_ENDPOINT(pe)) \/ RAW_ENDPOINT(pe) = "" THEN 1
         ELSE IF ENV(pe).RAYDIUM_POOLS = <<>> THEN 1
         ELSE 0
    ELSE IF ENV(pe).RPC_URL = "" THEN 1
         ELSE IF v \in WsRaydium /\ pe.POOLS = <<>> THEN 1
         ELSE 0

PoolsFor(v, env) ==
    IF v = "orca" /\ env = <<>> THEN <<DEFAULT_ORCA_POOL>> ELSE env
StartsWith(v, env) == (v \in WsRaydium \cup GrpcVenues) => env # <<>>

\* accepted: the signatures whose handler has passed its dedup check and
\* made its first getTransaction call (none at module load)
InitStateWith(accepted) ==
    /\ now = StartMs
    /\ seen = accepted
    /\ processingSignatures =
           (IF accepted = {} THEN <<>> ELSE [s \in accepted |-> StartMs])
    /\ sink = <<>>
    /\ streamWrites = <<>>
    /\ tasks = EmptyBag
    /\ fetchCalls = [s \in Sigs |-> IF s \in accepted THEN 1 ELSE 0]
    /\ results = [s \in Sigs |-> <<>>]
    /\ rejected = {}
    /\ eventCount = 0
    /\ reconnectAttempts = 0
    /\ reconnecting = FALSE
    /\ timers = <<>>
    /\ lastDelay = 0
    /\ gaveUp = FALSE
    /\ exited = 0
    /\ failures = 0
    /\ outages = 0
    /\ startedBy = IF venue \in GrpcVenues THEN "init" ELSE "none"
    /\ rejectedLate = {}
    /\ blockTimeLookups = [s \in Sigs |-> <<>>]
    /\ netFailed = {}
    /\ prefiltered = FALSE
    /\ sinkClosed = FALSE
    /\ unsubThrew = {}

InitState == InitStateWith({})

\* a watcher whose module-level checks passed
InitCommonWith(accepted) ==
    /\ \E pe \in EnvsOf(venue) :
           /\ startupExit(venue, pe) = 0
           /\ StartsWith(venue, pe.POOLS)
           /\ processEnv = pe
           /\ POOLS = PoolsFor(venue, pe.POOLS)
    /\ InitStateWith(accepted)

InitCommon == InitCommonWith({})

\* no other watcher process is running
NoPeer ==
    [venue |-> "none", ws |-> "none", reconnectAttempts |-> 0, seen |-> {},
     processingSignatures |-> <<>>, sink |-> <<>>, exited |-> 0, servedAfterFailed |-> {}]

\* the state after the module of the watcher has been loaded
InitLoaded ==
    /\ venue \in ConnVenues
    /\ InitCommon
    /\ usingAllFilter = FALSE
    /\ ws = IF venue \in GrpcVenues THEN "none" ELSE "connecting"
    /\ wsSubs = IF venue \in WsRaydium THEN POOLS ELSE <<>>
    /\ stream = "none"
    /\ streamPc = CASE venue \in GrpcVenues -> "subscribe"
                     [] venue = "orca" -> "start"
                     [] OTHER -> "idle"
    /\ pingIntervalId = FALSE
    /\ currentStream = 0 /\ pingTimers = {} /\ pingStream = 0 /\ replaced = {}
    /\ subscriptionId = 0
    /\ subscribeTries = <<>>
    /\ swapTx = NoTx
    /\ swapPc = "none"

InitConn == InitLoaded /\ peer = NoPeer

\* the state once the watcher is subscribed and its connection is up
InitSubscribedWith(accepted) ==
    /\ venue \in Venues
    /\ InitCommonWith(accepted)
    /\ usingAllFilter \in (IF venue = "orca" THEN BOOLEAN ELSE {FALSE})
    /\ ws = IF venue \in GrpcVenues THEN "none" ELSE "open"
    /\ wsSubs = CASE venue \in WsRaydium -> POOLS
                   [] venue \in GrpcVenues -> <<>>
                   [] OTHER -> <<"logs">>
    /\ stream = IF venue \in GrpcVenues THEN "live" ELSE "none"
    /\ streamPc = "idle"
    /\ pingIntervalId = (venue \in GrpcVenues)
    /\ currentStream = (IF venue \in GrpcVenues THEN 1 ELSE 0)
    /\ pingTimers = (IF venue \in GrpcVenues THEN {1} ELSE {})
    /\ pingStream = (IF venue \in GrpcVenues THEN 1 ELSE 0)
    /\ replaced = {}
    /\ subscriptionId = IF venue = "orca" THEN 1 ELSE 0
    /\ subscribeTries = CASE venue = "orca" /\ usingAllFilter -> <<"program", "all">>
                           [] venue = "orca" /\ ~usingAllFilter -> <<"program">>
                           [] OTHER -> <<>>

InitSubscribed == InitSubscribedWith({})

InitPipe ==
    /\ InitSubscribed
    /\ peer = NoPeer
    /\ swapTx = NoTx
    /\ swapPc = "none"

NextPipe ==
    \/ \E p \in {"A", "B"} : AccountChange(p)
    \/ \E t \in Running, res \in Sigs \cup {"throw", "empty"} : LookupReturn(t, res)
    \/ \E sig \in Sigs \cup {NoSig}, lines \in LogBatches : OnLogs(sig, lines)
    \/ \E t \in Running, res \in TxSet \cup {NoTx} : FetchReturn(t, res)
    \/ \E t \in Running : DelayElapsed(t)
    \/ \E t \in Running, bt \in BlockTimes : BlockTimeReturn(t, bt)
    \/ \E kind \in GrpcKinds, sig \in Sigs \cup {NoSig}, tx \in TxSet : GrpcData(kind, sig, tx)
    \/ Tick

\* the pipeline of the watchers that keep an in-flight map, over a long run:
\* the in-flight sweep fires and transaction lookups fail at the network level
FaultTxSet ==
    { Tx(Some(1), <<"C", "B">>, <<>>, TRUE, <<InvokeLine, SwapLine>>),
      Tx(Some(1), <<"C">>, <<>>, TRUE, <<SwapLine>>) }

NextFaults ==
    \/ AccountChange("B")
    \/ \E t \in Running, res \in Sigs : LookupReturn(t, res)
    \/ \E sig \in Sigs : OnLogs(sig, <<InvokeLine, SwapLine>>)
    \/ \E t \in Running, res \in FaultTxSet \cup {NoTx} : FetchReturn(t, res)
    \/ \E t \in Running, msg \in RpcErrors : FetchThrows(t, msg)
    \/ \E t \in Running : DelayElapsed(t)
    \/ Sweep

NextConn ==
    \/ WsOpen
    \/ \E msg \in WsErrorMsgs : WsError(msg)
    \/ WsClose
    \/ WsRetry
    \/ \E i \in 1..MaxTimers : WsTimerFire(i)
    \/ GrpcTimerFire
    \/ GrpcSubscribeOk
    \/ GrpcConnectFail
    \/ GrpcWriteOk
    \/ \E ev \in {"error", "end", "close"} : GrpcStreamEvent(ev)
    \/ \E id \in 1..MaxStreams, ev \in {"error", "end", "close"} :
           GrpcReplacedStreamEvent(id, ev)
    \/ \E ok \in BOOLEAN : GrpcPing(ok)
    \/ \E outcome \in SubscribeOutcomes : OrcaStart(outcome)
    \/ \E outcome \in SubscribeOutcomes : OrcaTimerFire(outcome)
    \/ OrcaMalformedMessage

Spec == InitPipe /\ [][NextPipe]_vars
\* a long-running websocket watcher of several pools
InitFaults == InitPipe /\ venue \in InFlightVenues /\ Len(POOLS) > 1

SpecFaults == InitFaults /\ [][NextFaults]_vars

SpecConn == InitConn /\ [][NextConn]_vars

\* The SIGINT handler.  throwsFor: the pools whose removeAccountChangeListener
\* call throws (raydium); endThrows: currentStream.end() throws (raydium-grpc).
\* The meteora watchers install no handler: the signal terminates the process.
Sigint(throwsFor, endThrows) ==
    /\ exited = 0
    /\ throwsFor # {} => venue = "raydium"
    /\ endThrows => venue \in GrpcVenues /\ stream # "none"
    /\ exited' = IF venue = "meteora_cpamm" THEN 3 ELSE 1
    /\ wsSubs' = IF venue = "raydium"
                 THEN SelectSeq(wsSubs, LAMBDA p : p \in throwsFor)
                 ELSE wsSubs
    /\ unsubThrew' = throwsFor \cap SeqToSet(wsSubs)
    /\ IF venue \in GrpcVenues THEN stopPings
       ELSE UNCHANGED <<pingIntervalId, pingTimers, pingStream>>
    /\ UNCHANGED <<currentStream, replaced>>
    /\ stream' = IF venue \in GrpcVenues /\ stream # "none" /\ ~endThrows
                 THEN "ended" ELSE stream
    /\ timers' = IF venue = "orca" THEN <<>> ELSE timers
    /\ sinkClosed' = (venue \in WsRaydium \cup GrpcVenues)
    /\ UNCHANGED <<processEnv, peerVars>>
    /\ UNCHANGED <<venue, POOLS, usingAllFilter, reconnectAttempts, reconnecting,
                   lastDelay, gaveUp, ws, streamPc, startedBy, subscriptionId,
                   failures, outages>>
    /\ UNCHANGED <<pipeVars, swapVars, auxVars>>

\* a subscribed watcher that receives notifications, loses its connection and
\* is stopped by the shutdown signal
NextShutdown ==
    \/ AccountChange("B")
    \/ \E t \in Running, res \in Sigs : LookupReturn(t, res)
    \/ \E sig \in Sigs : OnLogs(sig, <<InvokeLine, SwapLine>>)
    \/ \E t \in Running, res \in FaultTxSet \cup {NoTx} : FetchReturn(t, res)
    \/ \E t \in Running : DelayElapsed(t)
    \/ \E sig \in Sigs, tx \in FaultTxSet : GrpcData("transaction", sig, tx)
    \/ WsClose
    \/ GrpcStreamEvent("error")
    \/ \E throwsFor \in SUBSET {"A", "B"}, endThrows \in BOOLEAN :
           Sigint(throwsFor, endThrows)

SpecShutdown == InitPipe /\ [][NextShutdown]_vars

\* the process before the module of the watcher has run
InitLoad ==
    /\ venue \in ConnVenues
    /\ processEnv \in EnvsOf(venue)
    /\ peer = NoPeer
    /\ POOLS = PoolsFor(venue, processEnv.POOLS)
    /\ InitState
    /\ usingAllFilter = FALSE
    /\ ws = "none"
    /\ wsSubs = <<>>
    /\ stream = "none"
    /\ streamPc = "load"
    /\ pingIntervalId = FALSE
    /\ currentStream = 0 /\ pingTimers = {} /\ pingStream = 0 /\ replaced = {}
    /\ subscriptionId = 0
    /\ subscribeTries = <<>>
    /\ swapTx = NoTx
    /\ swapPc = "none"

\* the module of the watcher runs: the checks, then setupSubscriptions() /
\* startStreaming() up to its first await (orca subscribes in OrcaStart)
ModuleLoad ==
    /\ exited = 0 /\ streamPc = "load"
    /\ IF startupExit(venue, processEnv) # 0
       THEN /\ exited' = 2
            /\ UNCHANGED <<ws, wsSubs, streamPc>>
       ELSE /\ ws' = IF venue \in GrpcVenues THEN "none" ELSE "connecting"
            /\ wsSubs' = IF venue \in WsRaydium THEN POOLS ELSE <<>>
            /\ streamPc' = CASE venue \in GrpcVenues -> "subscribe"
                              [] venue = "orca" -> "start"
                              [] OTHER -> "idle"
            /\ UNCHANGED exited
    /\ UNCHANGED <<venue, POOLS, usingAllFilter, reconnectAttempts, reconnecting, timers,
                   lastDelay, gaveUp, stream, startedBy,
                   pingIntervalId, currentStream, pingTimers, pingStream, replaced, subscriptionId,
                   failures, outages>>
    /\ UNCHANGED <<pipeVars, swapVars, auxVars, shutVars, peerVars>>

NextStartup ==
    \/ ModuleLoad
    \/ NextConn

SpecStartup == InitLoad /\ [][NextStartup]_vars

\* Two watcher scripts run side by side, each as its own process with its own
\* module-level state and its own sink file.  The process of this module's
\* variables is the one whose connection fails; peer is a watch-raydium.ts
\* process.
primaryVars == <<venue, POOLS, pipeVars, connVars, swapVars, auxVars, shutVars>>

\* this watcher has lost its connection, is waiting to reconnect or has given up
PrimaryDown == outages > 0 \/ timers # <<>> \/ gaveUp \/ exited # 0

\* this watcher has used up its reconnect attempts
PrimaryFailed == gaveUp \/ exited = 2

\* mutant: both watchers are hosted by one process, so that the process.exit(1)
\* of this watcher also ends the peer
PeerAcceptSharedProcess(sig) ==
    /\ peer.venue # "none" /\ peer.exited = 0 /\ exited = 0
    /\ sig \notin peer.seen /\ sig \notin DOMAIN peer.processingSignatures
    /\ peer' = [peer EXCEPT
                    !.seen = @ \cup {sig},
                    !.processingSignatures =
                        [s \in DOMAIN @ \cup {sig} |-> IF s = sig THEN now ELSE @[s]],
                    !.servedAfterFailed = IF PrimaryFailed THEN @ \cup {sig} ELSE @]
    /\ UNCHANGED primaryVars

\* peer: processSignature up to its first await (dedup check, seen.add,
\* processingSignatures.set)
PeerAccept(sig) ==
    /\ peer.venue # "none" /\ peer.exited = 0
    /\ sig \notin peer.seen /\ sig \notin DOMAIN peer.processingSignatures
    /\ peer' = [peer EXCEPT
                    !.seen = @ \cup {sig},
                    !.processingSignatures =
                        [s \in DOMAIN @ \cup {sig} |-> IF s = sig THEN now ELSE @[s]],
                    !.servedAfterFailed = IF PrimaryFailed THEN @ \cup {sig} ELSE @]
    /\ UNCHANGED primaryVars

\* peer: processSignature from the resolved transaction to writer.write
PeerWrite(sig) ==
    /\ peer.venue # "none" /\ peer.exited = 0
    /\ sig \in peer.seen /\ sig \notin SeqToSet(peer.sink)
    /\ peer' = [peer EXCEPT !.sink = Append(@, sig)]
    /\ UNCHANGED primaryVars

\* peer: its websocket closed; attemptReconnect()
PeerWsClose ==
    /\ peer.venue # "none" /\ peer.exited = 0
    /\ peer.ws = "open"
    /\ peer.reconnectAttempts < MaxPeerOutages
    /\ peer' = [peer EXCEPT !.ws = "closed",
                            !.reconnectAttempts =
                                \* MAX_RECONNECT_ATTEMPTS of watch-raydium.ts
                                IF @ >= 5 THEN @ ELSE @ + 1]
    /\ UNCHANGED primaryVars

\* peer: its websocket opened again
PeerWsOpen ==
    /\ peer.venue # "none" /\ peer.exited = 0
    /\ peer.ws = "closed"
    /\ peer' = [peer EXCEPT !.ws = "open", !.reconnectAttempts = 0]
    /\ UNCHANGED primaryVars

InitTwo ==
    /\ InitLoaded
    /\ venue \in {"raydium_grpc", "orca"}
    /\ peer = [NoPeer EXCEPT !.venue = "raydium", !.ws = "open"]

NextTwo ==
    \/ WsOpen
    \/ \E msg \in WsErrorMsgs : WsError(msg)
    \/ WsClose
    \/ WsRetry
    \/ GrpcTimerFire
    \/ GrpcSubscribeOk
    \/ GrpcConnectFail
    \/ GrpcWriteOk
    \/ \E ev \in {"error", "end", "close"} : GrpcStreamEvent(ev)
    \/ \E id \in 1..MaxStreams, ev \in {"error", "end", "close"} :
           GrpcReplacedStreamEvent(id, ev)
    \/ \E outcome \in SubscribeOutcomes : OrcaStart(outcome)
    \/ \E outcome \in SubscribeOutcomes : OrcaTimerFire(outcome)
    \/ \E sig \in Sigs : PeerAccept(sig)
    \/ \E sig \in Sigs : PeerWrite(sig)
    \/ PeerWsClose
    \/ PeerWsOpen

SpecTwo == InitTwo /\ [][NextTwo]_vars

\* the orca watcher from module load: it subscribes, notifications arrive on
\* the subscription, the websocket closes and the watcher resubscribes
InitOrca == InitConn /\ venue = "orca"

NextOrca ==
    \/ \E outcome \in SubscribeOutcomes : OrcaStart(outcome)
    \/ \E outcome \in SubscribeOutcomes : OrcaTimerFire(outcome)
    \/ WsClose
    \/ \E sig \in Sigs \cup {NoSig}, lines \in LogBatches : OnLogs(sig, lines)
    \/ \E t \in Running, res \in FaultTxSet \cup {NoTx} : FetchReturn(t, res)
    \/ \E t \in Running : DelayElapsed(t)

SpecOrca == InitOrca /\ [][NextOrca]_vars

----------------------------------------------------------------------------
(* Swap extraction: parseSwapAmounts of the raydium watchers and its inline  *)
(* copy in the raydium-grpc data handler                                     *)

\* A raw token amount is the string uiTokenAmount.amount.  isInteger says
\* whether BigInt() accepts it; its value is big * 2^53 + n.
RawAmount(isInteger, big, n) == [isInteger |-> isInteger, big |-> big, n |-> n]
IntAmount(n) == RawAmount(TRUE, 0, n)
NotAnInteger == RawAmount(FALSE, 0, 0)
\* 2^53 + 1 = 9007199254740993
Above2Pow53 == RawAmount(TRUE, 1, 1)

\* BigInt(s): a SyntaxError for a string that is not an integer
BigIntThrows(a) == ~a.isInteger

\* postAmount - preAmount on BigInt
BigSub(a, b) == [big |-> a.big - b.big, n |-> a.n - b.n]
BigZero == [big |-> 0, n |-> 0]
\* sign of a BigInt big * 2^53 + n with |n| < 2^53
BigSign(c) ==
    IF c.big # 0 THEN c.big
    ELSE IF c.n > 0 THEN 1 ELSE IF c.n < 0 THEN 0 - 1 ELSE 0
BigNeg(c) == [big |-> 0 - c.big, n |-> 0 - c.n]

\* Number(bigint): the nearest double, ties to the even mantissa.  Below 2^53
\* every integer is a double; in [2^53, 2^54) only the even integers are.
NumberOfBigInt(c) ==
    LET m == IF BigSign(c) < 0 THEN BigNeg(c) ELSE c
        r == IF m.big = 0 \/ m.n < 0 \/ m.n % 2 = 0 THEN m
             ELSE [big |-> 1, n |-> IF (m.n - 1) % 4 = 0 THEN m.n - 1 ELSE m.n + 1]
    IN IF BigSign(c) < 0 THEN BigNeg(r) ELSE r

\* Math.abs(x / Math.pow(10, decimals)).toFixed(decimals): the decimal numeral
\* whose digits are those of |x| with the point `decimals` places from the right
ToFixed(x, decimals) ==
    [units |-> IF BigSign(x) < 0 THEN BigNeg(x) ELSE x, decimals |-> decimals]

\* an entry of meta.preTokenBalances / meta.postTokenBalances
Balance(accountIndex, mint, amount, decimals) ==
    [accountIndex |-> accountIndex, mint |-> mint, amount |-> amount,
     decimals |-> decimals]

\* preBalances.find(p => p.accountIndex === post.accountIndex): its index, 0
\* when there is none
findPre(preBalances, post) ==
    LET hits == {j \in 1..Len(preBalances) :
                    preBalances[j].accountIndex = post.accountIndex}
    IN IF hits = {} THEN 0 ELSE CHOOSE j \in hits : \A k \in hits : j <= k

\* mutant: the pre entry is matched on the account index alone
usedAnyMint(preBalances, post) == findPre(preBalances, post) # 0

\* pre && post.mint === pre.mint
used(preBalances, post) ==
    /\ findPre(preBalances, post) # 0
    /\ post.mint = preBalances[findPre(preBalances, post)].mint

\* the body of the try block: the changes array, then input and output
swapDeltas(preBalances, postBalances) ==
    LET usedIdx == {i \in 1..Len(postBalances) : used(preBalances, postBalances[i])}
        pre(i) == preBalances[findPre(preBalances, postBalances[i])]
        change(i) == BigSub(postBalances[i].amount, pre(i).amount)
        changes == {i \in usedIdx : change(i) # BigZero}
        neg == {i \in changes : BigSign(change(i)) < 0}
        pos == {i \in changes : BigSign(change(i)) > 0}
        input == CHOOSE i \in neg : \A k \in neg : i <= k
        output == CHOOSE i \in pos : \A k \in pos : i <= k
    IN IF \E i \in usedIdx :
              BigIntThrows(pre(i).amount) \/ BigIntThrows(postBalances[i].amount)
       THEN [throws |-> TRUE, amountIn |-> None, amountOut |-> None,
             tokenIn |-> NULL, tokenOut |-> NULL]
       ELSE [throws |-> FALSE,
             amountIn |-> IF neg = {} THEN None
                          ELSE Some(ToFixed(NumberOfBigInt(change(input)),
                                            postBalances[input].decimals)),
             amountOut |-> IF pos = {} THEN None
                           ELSE Some(ToFixed(NumberOfBigInt(change(output)),
                                             postBalances[output].decimals)),
             tokenIn |-> IF neg = {} THEN NULL ELSE postBalances[input].mint,
             tokenOut |-> IF pos = {} THEN NULL ELSE postBalances[output].mint]

\* the empty result {}
EmptySwap ==
    [throws |-> FALSE, amountIn |-> None, amountOut |-> None,
     tokenIn |-> NULL, tokenOut |-> NULL]

\* mutant: the extraction has no try/catch of its own
parseSwapAmountsNoCatch(tx) == swapDeltas(tx.preTokenBalances, tx.postTokenBalances)

\* parseSwapAmounts: the try block, {} when it threw
parseSwapAmounts(tx) ==
    IF swapDeltas(tx.preTokenBalances, tx.postTokenBalances).throws THEN EmptySwap
    ELSE swapDeltas(tx.preTokenBalances, tx.postTokenBalances)

\* the swap fields of the log entry
swapFields(swapData) ==
    [swap_in_amount |-> swapData.amountIn, swap_out_amount |-> swapData.amountOut,
     token_in |-> swapData.tokenIn, token_out |-> swapData.tokenOut]

\* raydium: poolAddress of the account subscription whose callback looked the
\* signature up with getSignaturesForAddress(poolPubkey): a configured pool
\* the transaction touches
notifiedPool(tx) ==
    CHOOSE p \in SeqToSet(POOLS) : p \in accountsTouched(tx)

\* the log entry of the raydium / raydium-grpc watcher without its swap fields
entryWithoutSwap(v, sig, tx, detectedMs) ==
    IF v = "raydium"
    THEN successRecord(v, Task("fetch1", sig, notifiedPool(tx), detectedMs, NoTx),
                       notifiedPool(tx),
                       embeddedBlockTimeMs(tx),
                       guessInstructionLabel(tx.logMessages).label)
    ELSE grpcRecord(sig, tx, detectedMs)

\* the handler once the transaction is known: swap extraction, then the write;
\* an exception leaves through the catch block, which writes nothing
WriteSwapRecord ==
    /\ venue \in {"raydium"} \cup GrpcVenues /\ exited = 0
    /\ swapPc = "resolved"
    /\ swapPc' = "done"
    \* raydium-grpc adds the signature in the data handler, just before the write
    /\ seen' = seen \cup {"sig1"}
    /\ WriterWrite(IF parseSwapAmounts(swapTx).throws THEN <<>>
                   ELSE <<entryWithoutSwap(venue, "sig1", swapTx, now)
                              @@ swapFields(parseSwapAmounts(swapTx))>>)
    /\ UNCHANGED <<venue, POOLS, now, processingSignatures, tasks, fetchCalls, results,
                   rejected, eventCount, rejectedLate, blockTimeLookups, netFailed,
                   swapTx>>
    /\ UNCHANGED <<connVars, auxVars, shutVars, peerVars>>

\* Token balance lists of a transaction.  An account index occurs at most once
\* in each list; mint X has 2 decimals and mint Y has 0.
AccountIndexes == {0, 1}
Mints == {"X", "Y"}
DecimalsOf(mint) == IF mint = "X" THEN 2 ELSE 0
AmountsOf(mint) ==
    {IntAmount(0), IntAmount(700), IntAmount(1000), NotAnInteger}
        \cup (IF mint = "Y" THEN {Above2Pow53} ELSE {})
BalanceEntries ==
    UNION {{Balance(i, m, a, DecimalsOf(m)) : i \in AccountIndexes, a \in AmountsOf(m)} :
              m \in Mints}
BalanceLists ==
    {<<>>} \cup {<<b>> : b \in BalanceEntries}
           \cup {l \in {<<b, c>> : b \in BalanceEntries, c \in BalanceEntries} :
                    l[1].accountIndex # l[2].accountIndex}
\* the pre list in the order of the account indexes
PreBalanceLists ==
    {l \in BalanceLists : Len(l) = 2 => l[1].accountIndex < l[2].accountIndex}

SwapTx(preBalances, postBalances) ==
    Tx(Some(1), <<"C", "B">>, <<>>, TRUE, <<SwapLine>>)
        @@ [preTokenBalances |-> preBalances, postTokenBalances |-> postBalances]

\* the state once the transaction of a notification is known.  raydium:
\* processSignature has added the signature to seen and to the in-flight map
\* and getTransaction has resolved; raydium-grpc: the update has just arrived
\* with its transaction and the data handler has not run yet
InitSwap ==
    /\ venue \in {"raydium"} \cup GrpcVenues
    /\ InitSubscribedWith(IF venue = "raydium" THEN {"sig1"} ELSE {})
    /\ peer = NoPeer
    /\ \E pre \in PreBalanceLists, post \in BalanceLists :
           /\ swapTx = SwapTx(pre, post)
           /\ swapPc = "resolved"

NextSwap == WriteSwapRecord

SpecSwap == InitSwap /\ [][NextSwap]_vars

----------------------------------------------------------------------------
(* Properties *)

Records == {sink[i] : i \in 1..Len(sink)}
RecordsFor(s) == {sink[i] : i \in RecordsOf(s)}
\* no handler instance is still working on signature s
Finished(s) == \A t \in Running : t.sig # s

\* C1: at most one record carrying a given signature is ever appended to the
\* sink of a watcher, whatever notifications are delivered (duplicates,
\* overlapping resolutions, several pool subscriptions, redeliveries).
C1_AtMostOneRecordPerSignature ==
    \A s \in Sigs : Cardinality(RecordsOf(s)) <= 1

\* C1 witness: a notification for a signature was rejected as a duplicate and
\* the sink holds exactly one record for that signature.
C1_Witness ==
    \E s \in rejected : Cardinality(RecordsOf(s)) = 1 /\ Finished(s)

\* C2: every signature that was marked seen and whose handler has finished
\* has exactly one record (success, not-yet-available or error) in the sink.
C2_SeenImpliesRecord ==
    \A s \in seen : Finished(s) => Cardinality(RecordsOf(s)) = 1

\* C3: in every record with both detection time and block time present,
\* latencyMs = max(0, detectedAtMs - blockTimeMs); in particular it is never
\* negative.
C3_LatencyClamped ==
    \A r \in Records :
        r.tx_block_time_ms # None =>
            r.latency_ms = Some(Max(0, r.detected_ms - Val(r.tx_block_time_ms)))

\* the transaction signature s was resolved to (NoTx when it was not resolved)
ResolvedAs(s) ==
    LET hits == {i \in 1..Len(results[s]) : results[s][i] # NoTx}
    IN IF hits = {} THEN NoTx ELSE results[s][CHOOSE i \in hits : TRUE]

\* C4: with a non-empty configured pool set, a resolved transaction that
\* touches no configured pool produces no record, and a record written for a
\* resolved transaction names a configured pool that the transaction touches.
C4_FilterCorrect ==
    Len(POOLS) > 0 =>
        \A s \in Sigs :
            ResolvedAs(s) # NoTx =>
                LET hit == accountsTouched(ResolvedAs(s)) \cap SeqToSet(POOLS)
                IN /\ hit = {} => RecordsOf(s) = {}
                   /\ \A r \in RecordsFor(s) : r.kind = "success" => r.pool \in hit

\* C5: while attempts remain, the gRPC worker is never left with no live
\* stream, no connect in progress and no reconnect timer pending.
C5_NeverStranded ==
    (venue \in GrpcVenues /\ exited = 0 /\ reconnectAttempts < MAX_RECONNECT_ATTEMPTS)
        => \/ stream \in {"live", "ended"}
           \/ streamPc # "idle"
           \/ timers # <<>>

BackoffTable == <<2000, 4000, 8000, 16000, 30000, 30000>>

\* C6: in the Raydium websocket and gRPC workers the delay scheduled for the
\* k-th consecutive reconnect attempt is min(1000 * 2^k, 30000) ms, that is
\* 2000, 4000, 8000, 16000, 30000, 30000 for k = 1..6 (and 30000 for every
\* later attempt); it never exceeds 30000 and never decreases while failures
\* are consecutive.
C6_BackoffSequence ==
    [][(venue \in WsRaydium \cup GrpcVenues /\ Len(timers') > Len(timers)) =>
          LET k == reconnectAttempts'
              d == timers'[Len(timers')]
          IN /\ k = reconnectAttempts + 1
             /\ k \in 1..10
             /\ d = IF k <= 6 THEN BackoffTable[k] ELSE 30000
             /\ d = Min(1000 * Pow2(k), 30000)
             /\ lastDelay' = d
             /\ d <= 30000
             /\ k > 1 => d >= lastDelay]_vars

\* C6 witness: a raydium-grpc watcher has scheduled its tenth consecutive
\* attempt, with the capped delay, after the ninth with the same delay.
C6_Witness ==
    /\ venue \in GrpcVenues
    /\ reconnectAttempts = 10
    /\ timers # <<>> /\ timers[Len(timers)] = 30000
    /\ lastDelay = 30000

\* C7: the Orca worker keeps an attempt counter that goes up by one with each
\* reconnect it schedules and is 0 again after a successful subscription, and
\* the delay it schedules grows with the counter as min(base * 2^attempt, cap):
\* the delay of a further consecutive failure is twice the previous one, or,
\* once the cap is reached, the cap.
C7_OrcaExponential ==
    [][ venue = "orca" =>
          /\ Len(timers') > Len(timers) =>
                 /\ reconnectAttempts' = reconnectAttempts + 1
                 /\ outages' > 1 =>
                        \/ timers'[Len(timers')] = 2 * lastDelay
                        \/ /\ timers'[Len(timers')] >= lastDelay
                           /\ timers'[Len(timers')] < 2 * lastDelay
          /\ (outages > 0 /\ outages' = 0) => reconnectAttempts' = 0
      ]_vars

\* C8: the attempt counter of the Raydium websocket and gRPC workers counts
\* each connection failure exactly once and is 0 after a successful
\* (re)connect.
C8_CountsEachFailureOnce ==
    (/\ venue \in WsRaydium \cup GrpcVenues
     /\ ~gaveUp /\ exited = 0
     /\ ws # "errored")
        => reconnectAttempts = Min(outages, MAX_RECONNECT_ATTEMPTS)

\* C9: once a worker has given up (a failure arrived with the attempt counter
\* at its maximum), no later event resets the counter or schedules a reconnect.
C9_FailedIsTerminal ==
    [][gaveUp => /\ reconnectAttempts' = reconnectAttempts
                 /\ Len(timers') <= Len(timers)]_vars

\* C10: resolving a signature makes at most 2 fetch attempts, exactly 1 when
\* the first returns a transaction and exactly 2 when it returns not-found;
\* two not-found results give exactly one not-yet-available record with block
\* time and latency absent, and no error record.
C10_RetryBudget ==
    venue \notin GrpcVenues =>
        \A s \in Sigs :
            /\ fetchCalls[s] <= 2
            /\ Len(results[s]) <= fetchCalls[s]
            /\ (Len(results[s]) >= 1 /\ results[s][1] # NoTx) => fetchCalls[s] = 1
            /\ (Len(results[s]) >= 1 /\ results[s][1] = NoTx
                    /\ \A t \in Running : ~(t.sig = s /\ t.pc = "delay"))
                  => fetchCalls[s] = 2
            /\ results[s] = <<NoTx, NoTx>> =>
                  /\ Cardinality(RecordsOf(s)) = 1
                  /\ \A r \in RecordsFor(s) :
                        /\ r.kind = "note"
                        /\ r.tx_block_time_ms = None
                        /\ r.latency_ms = None
                        /\ r.error = NULL

\* C10 witness: both fetches of a signature returned not-found and its single
\* record is the not-yet-available note.
C10_Witness ==
    \E s \in Sigs :
        /\ results[s] = <<NoTx, NoTx>>
        /\ fetchCalls[s] = 2
        /\ \E r \in RecordsFor(s) : r.kind = "note"

\* C11: the first notification for a signature is accepted and the signature
\* is recorded in the seen set and (where the watcher keeps one) the in-flight
\* map; the seen set never forgets, and no later notification for a seen
\* signature starts a handler, also after the sweep or the completion of
\* processing has removed the signature from the in-flight map.
C11_DedupCheck ==
    [][\A s \in Sigs :
          /\ s \in seen => s \in seen'
          /\ (s \notin seen /\ s \in seen') =>
                 /\ venue \in InFlightVenues => s \in DOMAIN processingSignatures'
                 /\ fetchCalls'[s] = 1
          /\ (s \in seen /\ fetchCalls'[s] > fetchCalls[s]) =>
                 \E t \in Running : t.sig = s /\ t.pc = "delay"]_vars

\* C11 witness: in a raydium watcher, where only the sweep removes in-flight
\* entries, a notification was rejected for a signature that is seen and no
\* longer in the in-flight map.
C11_Witness ==
    /\ venue \in WsRaydium
    /\ \E s \in rejectedLate : s \in seen /\ s \notin DOMAIN processingSignatures

\* C12: in the watchers that keep an in-flight map, every signature in the
\* in-flight map is in the seen set.
C12_InFlightSubsetOfSeen ==
    venue \in InFlightVenues => DOMAIN processingSignatures \subseteq seen

\* C12 witness: one signature is being processed and in flight while another,
\* seen earlier, has left the in-flight map.
C12_Witness ==
    /\ venue \in InFlightVenues
    /\ \E s \in DOMAIN processingSignatures : ~Finished(s)
    /\ seen \ DOMAIN processingSignatures # {}

\* C13: every record written with a non-null pool names a configured pool
\* (or no pool is configured).
C13_PoolIsConfigured ==
    \A r \in Records :
        r.pool # NULL => (r.pool \in SeqToSet(POOLS) \/ POOLS = <<>>)

\* C13 witness: a watcher that filters by the accounts of the transaction
\* wrote a record naming the pool it matched.
C13_Witness ==
    /\ venue \in LogsVenues /\ POOLS # <<>>
    /\ \E r \in Records : r.kind = "success" /\ r.pool # NULL

\* C14: with no pool configured, every accepted notification whose
\* transaction resolved has, once its handler finished, exactly one record,
\* and that record has a null pool.
C14_EmptyFilterMatchesAll ==
    (venue \in LogsVenues /\ POOLS = <<>>) =>
        \A s \in Sigs :
            (ResolvedAs(s) # NoTx /\ Finished(s)) =>
                /\ Cardinality(RecordsOf(s)) = 1
                /\ \A r \in RecordsFor(s) : r.pool = NULL

\* C14 witness: a watcher with no pool configured wrote the record of a
\* resolved transaction with a null pool.
C14_Witness ==
    /\ venue \in LogsVenues /\ POOLS = <<>>
    /\ \E r \in Records : r.kind = "success" /\ r.pool = NULL

\* the resolved transaction of s was dropped by the pool filter
Dropped(s) ==
    /\ venue \in LogsVenues /\ POOLS # <<>>
    /\ ResolvedAs(s) # NoTx
    /\ poolMentionedInTx(flattenAllAccounts(ResolvedAs(s)), SeqToSet(POOLS)) = NULL

\* processing of s raised an exception after s was marked seen
Threw(s) ==
    /\ s \in seen /\ Finished(s)
    /\ ResolvedAs(s) # NoTx /\ ~Dropped(s)
    /\ guessInstructionLabel(ResolvedAs(s).logMessages).throws

\* C15: when processing of an accepted signature raises an exception, an
\* error record for it is written and the watcher keeps running: every other
\* accepted signature whose handler finished has its own record.
C15_ErrorRecordAndContinue ==
    \A s \in Sigs :
        Threw(s) =>
            /\ \E r \in RecordsFor(s) : r.kind = "error"
            /\ exited = 0
            /\ \A s2 \in seen \ {s} :
                   (Finished(s2) /\ ~Threw(s2) /\ ~Dropped(s2))
                       => Cardinality(RecordsOf(s2)) = 1

\* C19: the block time of a success record is the timestamp embedded in the
\* resolved transaction when there is one; otherwise it is what the
\* slot-to-time lookup returned, and when that is nothing the block time and
\* the latency are null.
C19_BlockTimeResolution ==
    \A s \in Sigs : \A r \in RecordsFor(s) :
        r.kind = "success" =>
            LET tx == ResolvedAs(s)
            IN IF tx.blockTime # None
               THEN r.tx_block_time_ms = Some(Val(tx.blockTime) * 1000)
               ELSE /\ Len(blockTimeLookups[s]) = 1
                    /\ r.tx_block_time_ms = blockTimeLookups[s][1]
                    /\ blockTimeLookups[s][1] = None => r.latency_ms = None

\* C20: when the transaction lookup of a signature failed at the network
\* level, the record of that signature is an error record, not the
\* not-yet-available note of a lookup that found nothing.
C20_LookupFailureTyped ==
    \A s \in netFailed :
        (Finished(s) /\ results[s] = <<NoTx, NoTx>>) =>
            \E r \in RecordsFor(s) : r.kind = "error"

\* the post-balance entries that have a pre-balance entry with the same account
\* index and the same mint, and that pre-balance entry
Considered(tx) ==
    {i \in 1..Len(tx.postTokenBalances) :
        \E j \in 1..Len(tx.preTokenBalances) :
            /\ tx.preTokenBalances[j].accountIndex = tx.postTokenBalances[i].accountIndex
            /\ tx.preTokenBalances[j].mint = tx.postTokenBalances[i].mint}
PreOf(tx, i) ==
    tx.preTokenBalances[CHOOSE j \in 1..Len(tx.preTokenBalances) :
        /\ tx.preTokenBalances[j].accountIndex = tx.postTokenBalances[i].accountIndex
        /\ tx.preTokenBalances[j].mint = tx.postTokenBalances[i].mint]
\* every raw balance that enters a change is an integer
AllIntegers(tx) ==
    \A i \in Considered(tx) :
        PreOf(tx, i).amount.isInteger /\ tx.postTokenBalances[i].amount.isInteger
\* post - pre of a considered entry
RawChange(tx, i) == BigSub(tx.postTokenBalances[i].amount, PreOf(tx, i).amount)
Decreases(tx) == {i \in Considered(tx) : BigSign(RawChange(tx, i)) < 0}
Increases(tx) == {i \in Considered(tx) : BigSign(RawChange(tx, i)) > 0}
FirstOf(S) == CHOOSE i \in S : \A k \in S : i <= k

\* C16: swap extraction considers only the post-balance entries with a
\* pre-balance entry of the same account index and mint; in post-balance
\* order, the first strictly negative change is the input leg and the first
\* strictly positive change is the output leg.
C16_FirstLegs ==
    (swapPc = "done" /\ AllIntegers(swapTx)) =>
        /\ Len(sink) = 1
        /\ sink[1].token_in =
               IF Decreases(swapTx) = {} THEN NULL
               ELSE swapTx.postTokenBalances[FirstOf(Decreases(swapTx))].mint
        /\ sink[1].token_out =
               IF Increases(swapTx) = {} THEN NULL
               ELSE swapTx.postTokenBalances[FirstOf(Increases(swapTx))].mint

\* C16 witness: two balances of different mints decrease and the record names
\* the mint of the first one as the input token.
C16_Witness ==
    /\ swapPc = "done" /\ AllIntegers(swapTx) /\ Len(sink) = 1
    /\ Decreases(swapTx) = {1, 2}
    /\ swapTx.postTokenBalances[1].mint # swapTx.postTokenBalances[2].mint
    /\ sink[1].token_in = swapTx.postTokenBalances[1].mint

\* C17: for integer raw balances the input amount is pre - post of the input
\* leg and the output amount is post - pre of the output leg, scaled by the
\* decimals of the token and strictly positive; the input fields are absent
\* exactly when no considered balance decreases and the output fields exactly
\* when none increases.
C17_ExactAmounts ==
    (swapPc = "done" /\ AllIntegers(swapTx)) =>
        /\ Len(sink) = 1
        /\ sink[1].swap_in_amount =
               IF Decreases(swapTx) = {} THEN None
               ELSE Some([units |-> BigNeg(RawChange(swapTx, FirstOf(Decreases(swapTx)))),
                          decimals |->
                              swapTx.postTokenBalances[FirstOf(Decreases(swapTx))].decimals])
        /\ sink[1].swap_out_amount =
               IF Increases(swapTx) = {} THEN None
               ELSE Some([units |-> RawChange(swapTx, FirstOf(Increases(swapTx))),
                          decimals |->
                              swapTx.postTokenBalances[FirstOf(Increases(swapTx))].decimals])
        /\ \A a \in sink[1].swap_in_amount \cup sink[1].swap_out_amount :
               BigSign(a.units) > 0
        /\ (sink[1].token_in = NULL) <=> (Decreases(swapTx) = {})
        /\ (sink[1].token_out = NULL) <=> (Increases(swapTx) = {})

\* C18: when swap extraction raises an exception, the record is still
\* written, with the swap fields absent and every other field as the watcher
\* writes it for that transaction.
C18_ExtractionFailureKeepsRecord ==
    (swapPc = "done" /\ ~AllIntegers(swapTx)) =>
        /\ Len(sink) = 1
        /\ sink[1].swap_in_amount = None /\ sink[1].swap_out_amount = None
        /\ sink[1].token_in = NULL /\ sink[1].token_out = NULL
        /\ \A f \in {"signature", "signature_full", "kind", "pool", "tx_block_time_ms", "detected_ms",
                      "latency_ms", "instruction", "error"} :
               sink[1][f] = entryWithoutSwap(venue, "sig1", swapTx, now)[f]

\* C18 witness: a balance that is not an integer made BigInt throw although
\* another balance decreased, and the record was written without swap fields.
C18_Witness ==
    /\ swapPc = "done" /\ ~AllIntegers(swapTx)
    /\ Decreases(swapTx) # {}
    /\ Len(sink) = 1 /\ sink[1].token_in = NULL /\ sink[1].pool # NULL

\* C21: orca subscribe.  A subscribeLogs() call whose program-filter
\* subscription is rejected tries once more, with the 'all' filter, before a
\* reconnect is scheduled; while subscribed with the 'all' filter a
\* notification whose log lines do not mention the program is dropped before
\* the dedup check (seen set, in-flight map and sink unchanged); while
\* subscribed with the program filter no local filter is applied.
C21_SubscribeFallback ==
    [][ /\ (streamPc' # "start") =>
              /\ subscribeTries' = IF subscriptionId' # 0 /\ ~usingAllFilter'
                                   THEN <<"program">> ELSE <<"program", "all">>
              /\ subscriptionId' = 0 => timers' # <<>>
        /\ \A sig \in Sigs \cup {NoSig}, lines \in LogBatches :
              (OnLogs(sig, lines) /\ ~logsMentionProgram(lines, PROGRAM_STR)) =>
                  IF usingAllFilter
                  THEN UNCHANGED <<seen, processingSignatures, sink, tasks, fetchCalls>>
                  ELSE (sig # NoSig /\ ~alreadyHandled(venue, sig)) =>
                          /\ sig \in seen'
                          /\ sig \in DOMAIN processingSignatures'
      ]_vars

\* C21 witness: the program filter was rejected and the 'all' filter accepted,
\* a notification was dropped by the local prefilter and another one came
\* through it and was written.
C21_Witness ==
    /\ venue = "orca" /\ usingAllFilter /\ subscribeTries = <<"program", "all">>
    /\ prefiltered /\ sink # <<>> /\ timers = <<>>

\* C22: while the gRPC stream is live the keepalive interval is active, and a
\* keepalive probe that cannot be sent is treated as a transport error: a
\* reconnect is started (a timer is scheduled or the watcher gives up).
C22_KeepaliveFailureReconnects ==
    [][ /\ (venue \in GrpcVenues /\ stream' = "live") => pingIntervalId'
        /\ GrpcPing(FALSE) =>
              (Len(timers') > Len(timers) \/ reconnecting' \/ exited' # 0)
      ]_vars

\* the shutdown signal was delivered and the process is gone
ShutDown == exited \in {1, 3}

\* C23: once the process has exited on the shutdown signal, every resolution
\* that was in flight at the signal (signature marked seen, handler not yet
\* returned) has its record in the sink.
C23_InFlightFlushedAtShutdown ==
    ShutDown => \A t \in Running : t.sig # NoSig => RecordsOf(t.sig) # {}

\* C24: when the process exits on the shutdown signal the sink is closed, the
\* keepalive timer is stopped, no reconnect timer is pending and every
\* subscription whose removal did not fail is removed; no record is appended
\* once the sink is closed.
C24_ShutdownReleasesHandles ==
    [][ /\ ShutDown' =>
              /\ sinkClosed'
              /\ ~pingIntervalId'
              /\ timers' = <<>>
              /\ SeqToSet(wsSubs') \subseteq unsubThrew'
        /\ sinkClosed => sink' = sink
      ]_vars

\* a mandatory endpoint is missing or the required pool list is empty
FatalConfiguration ==
    /\ venue \in WsRaydium \cup GrpcVenues
    /\ \/ venue \in WsRaydium /\ processEnv.RPC_URL = ""
       \/ venue \in GrpcVenues /\ processEnv.GRPC_ENDPOINT = ""
       \/ processEnv.POOLS = <<>>

\* C25: a Raydium websocket or gRPC watcher started without its mandatory
\* endpoint or with an empty pool list ends with a non-zero exit code at
\* module load: no subscription is created, no stream opened, no record
\* written.
C25_FatalConfigurationExits ==
    [][ FatalConfiguration =>
            /\ exited' = 2
            /\ streamPc' = "load" /\ wsSubs' = <<>> /\ stream' = "none" /\ sink' = <<>>
      ]_vars

ArrivedAt(s) ==
    (IF s \in DOMAIN processingSignatures THEN {processingSignatures[s]} ELSE {})
        \cup {r.detected_ms : r \in RecordsFor(s)}

\* C27: when the record of a later-detected signature S2 is written while the
\* resolution of an earlier-detected signature S1 is pending, the record of
\* S1 is not lost: once the handler of S1 has finished, S1 has its one record
\* (unless the pool filter dropped its transaction).
C27_OvertakenRecordNotLost ==
    \A s1 \in seen : \A r2 \in Records :
        ( /\ carriedSignature(r2) # s1
          /\ \E d \in ArrivedAt(s1) : d < r2.detected_ms
          /\ Finished(s1) /\ ~Dropped(s1) )
            => Cardinality(RecordsOf(s1)) = 1

\* C28: each record reaches the sink by exactly one stream.write of its whole
\* JSON text ended by a newline; whatever the interleaving of the running
\* handlers, the strings written are, in order, the complete lines of the
\* records, none split and none mixed with another.
C28_WholeRecordLines ==
    /\ Len(streamWrites) = Len(sink)
    /\ \A i \in 1..Len(streamWrites) :
           streamWrites[i].newline /\ streamWrites[i].text = sink[i]

\* C28 witness: two handlers ran interleaved (the record of the signature
\* detected later was written first) and both lines are in the sink.
C28_Witness ==
    /\ Len(streamWrites) >= 2
    /\ carriedSignature(streamWrites[1].text) # carriedSignature(streamWrites[2].text)
    /\ streamWrites[1].text.detected_ms > streamWrites[2].text.detected_ms

\* C29: a notification for a signature the dedup check already knows (in the
\* seen set or in the in-flight map) is rejected without side effects: the
\* seen set, the in-flight map with the timestamp of the first delivery and
\* the sink stay as they are, and no getTransaction call is issued.
C29_RejectionHasNoSideEffects ==
    [][ \A s \in Sigs :
          ( /\ alreadyHandled(venue, s)
            /\ \/ \E t \in Running : LookupReturn(t, s)
               \/ \E lines \in LogBatches : OnLogs(s, lines)
               \/ \E tx \in TxSet : GrpcData("transaction", s, tx) )
              => UNCHANGED <<seen, processingSignatures, sink, streamWrites, fetchCalls>>
      ]_vars

\* C29 witness: a notification for a signature was rejected while its first
\* delivery, detected earlier, is still in flight with its own timestamp.
C29_Witness ==
    \E s \in rejected :
        /\ s \in DOMAIN processingSignatures /\ processingSignatures[s] < now
        /\ s \notin rejectedLate /\ fetchCalls[s] = 1

\* C30: end to end, a notification detected at d whose transaction has block
\* time b <= d, touches the configured pool B and whose matched balances show
\* exactly one decrease (of token X by x) and one increase (of token Y by y)
\* yields exactly one record, with pool B, token_in X, swap_in_amount x,
\* token_out Y, swap_out_amount y and latency_ms d - b.
C30_EndToEndRecord ==
    ( /\ swapPc = "done" /\ AllIntegers(swapTx)
      /\ Cardinality(Decreases(swapTx)) = 1 /\ Cardinality(Increases(swapTx)) = 1
      /\ "B" \in accountsTouched(swapTx) /\ "B" \in SeqToSet(POOLS)
      /\ Val(swapTx.blockTime) * 1000 <= now )
        => LET dec == FirstOf(Decreases(swapTx))
               inc == FirstOf(Increases(swapTx))
           IN /\ Len(sink) = 1
              /\ carriedSignature(sink[1]) = "sig1" /\ sink[1].pool = "B"
              /\ sink[1].token_in = swapTx.postTokenBalances[dec].mint
              /\ sink[1].swap_in_amount =
                     Some([units |-> BigNeg(RawChange(swapTx, dec)),
                           decimals |-> swapTx.postTokenBalances[dec].decimals])
              /\ sink[1].token_out = swapTx.postTokenBalances[inc].mint
              /\ sink[1].swap_out_amount =
                     Some([units |-> RawChange(swapTx, inc),
                           decimals |-> swapTx.postTokenBalances[inc].decimals])
              /\ sink[1].detected_ms = now
              /\ sink[1].latency_ms = Some(now - Val(swapTx.blockTime) * 1000)

\* C31: a sweep of the in-flight map removes exactly the entries whose
\* timestamp is more than five minutes before the sweep time and keeps the
\* others with their timestamps; it leaves the seen set and the sink as they
\* are.  A signature that is seen but no longer in flight (swept or finished)
\* never enters the in-flight map again, gets no further getTransaction call
\* from a new handler, and never has more than one record.
C31_SweepRemovesOldEntriesOnly ==
    [][ /\ Sweep =>
              /\ DOMAIN processingSignatures' =
                     {s \in DOMAIN processingSignatures :
                         now' - processingSignatures[s] <= 5 * 60 * 1000}
              /\ \A s \in DOMAIN processingSignatures' :
                     processingSignatures'[s] = processingSignatures[s]
              /\ UNCHANGED <<seen, sink, streamWrites>>
        /\ \A s \in seen \ DOMAIN processingSignatures :
              /\ s \notin DOMAIN processingSignatures'
              /\ fetchCalls'[s] # fetchCalls[s] => \E t \in Running : t.sig = s
              /\ Cardinality({i \in 1..Len(sink') : carriedSignature(sink'[i]) = s}) <= 1
      ]_vars

\* C31 witness: a sweep deleted the entry of a signature whose handler is
\* still running and kept an entry that was exactly five minutes old.
C31_Witness ==
    \E s1 \in seen \ DOMAIN processingSignatures, s2 \in DOMAIN processingSignatures :
        /\ \E t \in Running : t.sig = s1
        /\ now - processingSignatures[s2] = 5 * 60 * 1000

\* C32: every transition of the orca watcher into streaming, the subscribe at
\* start and each successful re-subscribe of a reconnect, resets the event
\* count of the heartbeat to 0.
C32_StreamingResetsCounters ==
    [][ (\E outcome \in SubscribeOutcomes \ {"none"} :
             OrcaStart(outcome) \/ OrcaTimerFire(outcome))
          => eventCount' = 0
      ]_vars

\* C33: in every reachable state of a reconnecting watcher (raydium
\* websocket, raydium-grpc, orca) at most one reconnect timer is pending: a
\* failure event that arrives while a reconnect is scheduled or in progress
\* schedules no second one.
C33_AtMostOneReconnectPending ==
    venue \in ConnVenues => Len(timers) <= 1

\* C34: the attempt counter of the raydium websocket watcher stays within
\* 0..5 and that of the raydium-grpc watcher within 0..10.  Every reconnect a
\* watcher schedules raises its counter by one, and the counter goes down
\* only when a connection succeeded (websocket open, stream subscribed), so
\* no more reconnects than the maximum are scheduled between two successful
\* connections.
C34_AttemptCounterBounded ==
    /\ [](venue \in WsRaydium => reconnectAttempts \in 0..5)
    /\ [](venue \in GrpcVenues => reconnectAttempts \in 0..10)
    /\ [][ (venue \in WsRaydium \cup GrpcVenues) =>
              ( /\ Len(timers') > Len(timers) =>
                       reconnectAttempts' = reconnectAttempts + 1
                /\ reconnectAttempts' < reconnectAttempts =>
                       /\ reconnectAttempts' = 0
                       /\ \/ ws # "open" /\ ws' = "open"
                          \/ stream # "live" /\ stream' = "live" ) ]_vars

\* C34 witness: the raydium-grpc watcher scheduled ten reconnects without a
\* successful connection in between; the eleventh failure scheduled none and
\* ended the watcher.
C34_Witness ==
    /\ venue \in GrpcVenues /\ reconnectAttempts = 10 /\ gaveUp /\ exited = 2
    /\ timers = <<>>

\* C35: in the raydium-grpc watcher at most one keepalive interval is active,
\* and an active interval writes to the current stream, never to a stream
\* that has been replaced; none is active once the current stream has
\* reported error, end or close, nor after a ping write failed or an event of
\* any stream; after a reconnect the interval is the one of the new stream.
C35_OneKeepalivePerCurrentStream ==
    /\ [](venue \in GrpcVenues =>
              /\ Cardinality(pingTimers) <= 1
              /\ pingTimers \subseteq {currentStream}
              /\ \A r \in replaced : r.id \notin pingTimers
              /\ pingIntervalId <=> pingTimers # {}
              /\ pingTimers # {} => pingStream = currentStream
              /\ stream \in {"errored", "ended", "closed"} => pingTimers = {})
    /\ [][ /\ GrpcPing(FALSE) => pingTimers' = {}
           /\ (\E ev \in {"error", "end", "close"} : GrpcStreamEvent(ev))
                  => pingTimers' = {}
           /\ (\E id \in 1..MaxStreams, ev \in {"error", "end", "close"} :
                  GrpcReplacedStreamEvent(id, ev)) => pingTimers' = {}
           /\ GrpcWriteOk => pingTimers' = {currentStream'} ]_vars

\* C35 witness: after a stream failure and a reconnect the new stream is live
\* and the one active keepalive interval writes to it, while the stream it
\* replaced still has its handlers attached.
C35_Witness ==
    /\ venue \in GrpcVenues /\ stream = "live"
    /\ currentStream >= 2 /\ replaced # {}
    /\ pingTimers = {currentStream} /\ pingIntervalId /\ pingStream = currentStream

\* C36: in the raydium websocket watcher every configured pool has at most
\* one account-change subscription (one entry of the active-subscription
\* table), whatever number of close / reconnect cycles went by.
C36_OneSubscriptionPerPool ==
    venue \in WsRaydium =>
        \A p \in SeqToSet(POOLS) :
            Cardinality({i \in 1..Len(wsSubs) : wsSubs[i] = p}) <= 1

\* C37: in the orca watcher the in-flight map holds only signatures whose
\* handler is still running: once the handler of an accepted signature has
\* finished (record written, not yet available, dropped by the pool filter,
\* or error) the signature is no longer in the map.
C37_OrcaInFlightIsRunning ==
    venue = "orca" =>
        \A s \in DOMAIN processingSignatures : ~Finished(s)

\* C38: a notification without a usable signature or payload (a log event
\* with no signature, a signature lookup that returns nothing, a gRPC update
\* that is no transaction or whose signature cannot be encoded) is ignored:
\* the seen set, the in-flight map, the getTransaction calls and the sink are
\* unchanged, and so is everything the handling of a later notification
\* depends on (subscriptions, stream, running handlers).
C38_UnusableNotificationIgnored ==
    [][ ( \/ \E lines \in LogBatches : OnLogs(NoSig, lines)
          \/ \E t \in Running : LookupReturn(t, "empty")
          \/ \E kind \in GrpcKinds, tx \in TxSet : GrpcData(kind, NoSig, tx)
          \/ \E sig \in Sigs, tx \in TxSet : GrpcData("empty", sig, tx) )
          => ( /\ UNCHANGED <<seen, processingSignatures, fetchCalls, sink, streamWrites>>
               /\ UNCHANGED <<wsSubs, stream, exited, usingAllFilter>>
               /\ \A t \in BagToSet(tasks') : t \in Running ) ]_vars

\* C38 witness: the orca watcher received two log events, one of them without
\* a signature, and the record of the other one is in the sink.
C38_Witness ==
    /\ venue = "orca" /\ eventCount = 2 /\ ~prefiltered /\ rejected = {}
    /\ Cardinality(seen) = 1 /\ Len(sink) = 1 /\ sink[1].kind = "success"

\* the pool-matching answer for transaction tx under the configured pools
MentionedPool(tx) == poolMentionedInTx(flattenAllAccounts(tx), SeqToSet(POOLS))

\* C39 (first sentence): poolMentionedInTx returns null exactly when no
\* account of the list is a pool key, and otherwise the first account, in
\* list order, that is a pool key.
C39_FirstMentionedPool ==
    \A s \in Sigs :
        ResolvedAs(s) # NoTx =>
            LET acc == flattenAllAccounts(ResolvedAs(s))
                r == MentionedPool(ResolvedAs(s))
            IN /\ (r = NULL) <=> (\A i \in 1..Len(acc) : acc[i] \notin SeqToSet(POOLS))
               /\ r # NULL =>
                     \E i \in 1..Len(acc) :
                         /\ acc[i] = r /\ r \in SeqToSet(POOLS)
                         /\ \A j \in 1..(i - 1) : acc[j] \notin SeqToSet(POOLS)

\* C39: poolMentionedInTx returns null exactly when no account is a pool key
\* and otherwise the first account that is one, and for a transaction that
\* touches exactly one configured pool the pool tag of the gRPC watcher is
\* the pool poolMentionedInTx returns.
C39_PoolTagAgrees ==
    /\ C39_FirstMentionedPool
    /\ venue \in GrpcVenues =>
          \A s \in Sigs :
              (/\ ResolvedAs(s) # NoTx
               /\ Cardinality(accountsTouched(ResolvedAs(s)) \cap SeqToSet(POOLS)) = 1)
                  => /\ grpcPoolTag(ResolvedAs(s), POOLS) = MentionedPool(ResolvedAs(s))
                     /\ \A r \in RecordsFor(s) :
                            r.kind = "success" => r.pool = MentionedPool(ResolvedAs(s))

====
